---- MODULE Spec2Model ----
(***************************************************************************)
(* State-machine model of the sandbox gateway (clwapi): path validation,   *)
(* the EnvStore (/sandbox-env/.env), the command and code executors, the   *)
(* file tree, file download and log endpoints, and the single event loop   *)
(* that runs the request handlers.                                         *)
(*                                                                         *)
(* A string is a sequence of one-character strings, so that prefixes,      *)
(* slices, splitting and joining are computed as the code computes them.   *)
(***************************************************************************)
EXTENDS Integers, Sequences, FiniteSets, TLC

VARIABLES
    vpath,      \* the path string handed to _validate_path
    vres,       \* "none" before the call, then "ok" or "rejected" (HTTP 400)
    vresolved,  \* the string _validate_path returns (empty until it returns)
    envFile,    \* content of /sandbox-env/.env, or NoFile
    tmp,        \* the container's /tmp: script name -> request that uploaded it
    loop,       \* request whose handler runs on the event loop, 0 when idle
    req,        \* request id -> request record (arguments, position, response)
    writes,     \* ids of the requests that rewrote envFile, in write order
    traw,       \* the raw_output string handed to _parse_tree
    troot,      \* the root handed to _parse_tree
    tres,       \* NoTree before the call, then what _parse_tree returns or raises
    db          \* the run of one database script: arguments, position, calls, table

vars == <<vpath, vres, vresolved, envFile, tmp, loop, req, writes, traw, troot, tres, db>>

\* The arguments and the result of the one call of _parse_tree.
tvars == <<traw, troot, tres>>

(***************************************************************************)
(* Bounds of the model.                                                    *)
(***************************************************************************)
MaxPieces == 5
MaxReqs == 2
MaxNames == 2
MaxScripts == 2
MaxOver == 2
MaxLines == 3
MaxRows == 2

(***************************************************************************)
(* Generic helpers on sequences.                                           *)
(***************************************************************************)
IsPrefix(p, s) == Len(p) <= Len(s) /\ SubSeq(s, 1, Len(p)) = p

RECURSIVE Flatten(_)
Flatten(ss) == IF ss = <<>> THEN <<>> ELSE Head(ss) \o Flatten(Tail(ss))

\* sep.join(parts)
RECURSIVE Join(_, _)
Join(parts, sep) ==
    IF parts = <<>> THEN <<>>
    ELSE IF Len(parts) = 1 THEN Head(parts)
    ELSE Head(parts) \o sep \o Join(Tail(parts), sep)

\* s.split(c): the pieces of s between occurrences of the character c
RECURSIVE SplitAcc(_, _, _, _)
SplitAcc(s, c, cur, acc) ==
    IF s = <<>> THEN Append(acc, cur)
    ELSE IF Head(s) = c THEN SplitAcc(Tail(s), c, <<>>, Append(acc, cur))
    ELSE SplitAcc(Tail(s), c, Append(cur, Head(s)), acc)

Split(s, c) == SplitAcc(s, c, <<>>, <<>>)

(***************************************************************************)
(* Path validation (routers/file_service.py).                              *)
(***************************************************************************)
ALLOWED_ROOT == <<"/", "w", "o", "r", "k", "s", "p", "a", "c", "e">>

\* Number of leading "/" characters of s.
RECURSIVE LeadingSlashes(_)
LeadingSlashes(s) ==
    IF s = <<>> \/ Head(s) # "/" THEN 0 ELSE 1 + LeadingSlashes(Tail(s))

\* The root PurePosixPath keeps: exactly two leading slashes stay "//",
\* any other positive number collapses to "/".
PosixRoot(s) ==
    LET n == LeadingSlashes(s) IN
    IF n = 0 THEN <<>> ELSE IF n = 2 THEN <<"/", "/">> ELSE <<"/">>

\* The segments PurePosixPath keeps: empty and "." segments are dropped,
\* ".." segments are kept as they are.
PosixParts(s) ==
    LET KeepSeg(x) == x # <<>> /\ x # <<".">> IN
    SelectSeq(Split(s, "/"), KeepSeg)

\* str(PurePosixPath(s))
PurePosixPathStr(s) ==
    LET root == PosixRoot(s)
        parts == PosixParts(s)
    IN IF root = <<>> /\ parts = <<>> THEN <<".">>
       ELSE root \o Join(parts, <<"/">>)

\* resolved.startswith(ALLOWED_ROOT)
AcceptsResolved(resolved) == IsPrefix(ALLOWED_ROOT, resolved)

\* _validate_path without its test: every path is returned.
ValidatePathUnchecked(p) == [status |-> "ok", resolved |-> PurePosixPathStr(p)]

\* _validate_path: "ok" with the resolved string, or "rejected"
ValidatePathResult(p) ==
    LET resolved == PurePosixPathStr(p) IN
    IF ~AcceptsResolved(resolved)
    THEN [status |-> "rejected", resolved |-> <<>>]
    ELSE [status |-> "ok", resolved |-> resolved]

\* The path strings tried: concatenations of at most MaxPieces pieces.
PathPieces ==
    { <<"/">>, <<".">>, <<".", ".">>,
      <<"w", "o", "r", "k", "s", "p", "a", "c", "e">>, <<"e">> }

RECURSIVE PieceSeqs(_)
PieceSeqs(n) ==
    IF n = 0 THEN { <<>> }
    ELSE LET shorter == PieceSeqs(n - 1) IN
         shorter \cup { Append(ps, x) : ps \in { q \in shorter : Len(q) = n - 1 },
                                        x \in PathPieces }

PathInputs == { Flatten(ps) : ps \in PieceSeqs(MaxPieces) }

(***************************************************************************)
(* The environment file (routers/env_service.py).                          *)
(***************************************************************************)
NoFile == "NoFile"

\* Neither the file nor its directory /sandbox-env exists.
NoDir == "NoDir"

\* not ENV_FILE.exists()
FileMissing(file) == file = NoFile \/ file = NoDir

\* The empty dict.
EmptyEnv == [k \in {} |-> <<>>]

\* Code point of a character, for sorted().
CharCode(c) ==
    CASE c = "\n" -> 10
      [] c = " "  -> 32
      [] c = "#"  -> 35
      [] c = "="  -> 61
      [] c = "A"  -> 65
      [] c = "B"  -> 66
      [] c = "C"  -> 67
      [] c = "a"  -> 97
      [] c = "b"  -> 98
      [] OTHER    -> 127

\* s < t as Python compares strings.
RECURSIVE StrLess(_, _)
StrLess(s, t) ==
    IF t = <<>> THEN FALSE
    ELSE IF s = <<>> THEN TRUE
    ELSE IF Head(s) = Head(t) THEN StrLess(Tail(s), Tail(t))
    ELSE CharCode(Head(s)) < CharCode(Head(t))

\* sorted(keys)
RECURSIVE SortedKeys(_)
SortedKeys(ks) ==
    IF ks = {} THEN <<>>
    ELSE LET m == CHOOSE x \in ks : \A y \in ks \ {x} : StrLess(x, y)
         IN <<m>> \o SortedKeys(ks \ {m})

IsSpace(c) == c = " " \/ c = "\n"

\* str.strip()
RECURSIVE LStrip(_)
LStrip(s) == IF s # <<>> /\ IsSpace(Head(s)) THEN LStrip(Tail(s)) ELSE s

RECURSIVE RStrip(_)
RStrip(s) ==
    IF s # <<>> /\ IsSpace(s[Len(s)]) THEN RStrip(SubSeq(s, 1, Len(s) - 1)) ELSE s

Strip(s) == LStrip(RStrip(s))

\* str.splitlines(): no empty last line after a final line break
SplitLines(s) ==
    LET p == Split(s, "\n") IN
    IF p[Len(p)] = <<>> THEN SubSeq(p, 1, Len(p) - 1) ELSE p

Contains(s, c) == \E i \in 1..Len(s) : s[i] = c

\* Index of the first occurrence of c in s (s contains c).
FirstIndex(s, c) == CHOOSE i \in 1..Len(s) : s[i] = c /\ \A j \in 1..(i - 1) : s[j] # c

\* line.partition("="): the text before and after the first "="
PartitionKey(line) == SubSeq(line, 1, FirstIndex(line, "=") - 1)
PartitionValue(line) == SubSeq(line, FirstIndex(line, "=") + 1, Len(line))

\* env[k] = v
DictSet(env, k, v) == [x \in DOMAIN env \cup {k} |-> IF x = k THEN v ELSE env[x]]

\* env.update(other)
DictUpdate(env, other) ==
    [x \in DOMAIN env \cup DOMAIN other |-> IF x \in DOMAIN other THEN other[x] ELSE env[x]]

\* del env[k]
DictDel(env, k) == [x \in DOMAIN env \ {k} |-> env[x]]

\* The loop of _read_env over the lines of the file.
RECURSIVE ReadLines(_, _)
ReadLines(lines, env) ==
    IF lines = <<>> THEN env
    ELSE LET line == Strip(Head(lines)) IN
         IF line = <<>> \/ Head(line) = "#" THEN ReadLines(Tail(lines), env)
         ELSE IF ~Contains(line, "=") THEN ReadLines(Tail(lines), env)
         ELSE ReadLines(Tail(lines),
                        DictSet(env, Strip(PartitionKey(line)), Strip(PartitionValue(line))))

\* _read_env(): the dict parsed from the file, empty when there is no file
ReadEnv(file) == IF FileMissing(file) THEN EmptyEnv ELSE ReadLines(SplitLines(file), EmptyEnv)

\* The content _write_env builds: "\n".join(f"{k}={v}" ...sorted...) + "\n"
EnvContent(env) ==
    LET ks == SortedKeys(DOMAIN env)
        lines == [i \in 1..Len(ks) |-> ks[i] \o <<"=">> \o env[ks[i]]]
    IN Join(lines, <<"\n">>) \o <<"\n">>

\* The variable names and values the requests carry.
AllNames == << <<"A">>, <<"B">>, <<"C">>, <<"A", "A">>, <<"A", "B">> >>
Names == { AllNames[i] : i \in 1..MaxNames }

(***************************************************************************)
(* The POSIX shell run by exec_run(["sh", "-c", full_command]) in the      *)
(* sandbox container (container.py).                                       *)
(***************************************************************************)
\* Words of a line of shell text: split at blanks, empty pieces dropped;
\* a word that starts with "#" begins a comment.
RECURSIVE DropComment(_)
DropComment(ws) ==
    IF ws = <<>> THEN <<>>
    ELSE IF Head(Head(ws)) = "#" THEN <<>>
    ELSE <<Head(ws)>> \o DropComment(Tail(ws))

ShWords(line) ==
    LET NonEmpty(w) == w # <<>> IN DropComment(SelectSeq(Split(line, " "), NonEmpty))

IsIdentChar(c) == c \in {"A", "B", "C", "a", "b"}

\* NAME=text with NAME a shell identifier
IsAssignment(w) ==
    /\ Contains(w, "=")
    /\ PartitionKey(w) # <<>>
    /\ \A i \in 1..Len(PartitionKey(w)) : IsIdentChar(PartitionKey(w)[i])

RECURSIVE Assign(_, _)
Assign(ws, shvars) ==
    IF ws = <<>> THEN shvars
    ELSE Assign(Tail(ws), DictSet(shvars, PartitionKey(Head(ws)), PartitionValue(Head(ws))))

\* One line of a sourced file. Words that are all assignments set the
\* variables; with a further word the line is a command run with the
\* assignments in its own environment only, and the shell keeps nothing.
ShSourceLine(line, shvars) ==
    LET ws == ShWords(line) IN
    IF ws = <<>> THEN shvars
    ELSE IF \A i \in 1..Len(ws) : IsAssignment(ws[i]) THEN Assign(ws, shvars)
    ELSE shvars

RECURSIVE ShSourceLines(_, _)
ShSourceLines(lines, shvars) ==
    IF lines = <<>> THEN shvars
    ELSE ShSourceLines(Tail(lines), ShSourceLine(Head(lines), shvars))

\* ". file" for a file that exists
ShSource(file, shvars) == ShSourceLines(Split(file, "\n"), shvars)

\* full_command of exec_in_container without the -f guard
CommandCompositeUnguarded ==
    << "set -a", ". ENV_FILE_PATH 2>/dev/null", "set +a", "cd workdir && payload" >>

\* full_command of exec_in_container
CommandComposite ==
    << "set -a", "[ -f ENV_FILE_PATH ] && . ENV_FILE_PATH", "set +a",
       "cd workdir && payload" >>

\* full_command of exec_python_in_container without the capture: the
\* script is removed right after the interpreter and the shell ends with
\* the status of its last command.
PythonCompositeNoCapture ==
    << "set -a", ". ENV_FILE_PATH 2>/dev/null", "set +a",
       "cd workdir && payload", "rm -f script_path" >>

\* full_command of exec_python_in_container
PythonComposite ==
    << "set -a", ". ENV_FILE_PATH 2>/dev/null", "set +a",
       "cd workdir && payload", "_exit=$?", "rm -f script_path", "exit $_exit" >>

\* The shell as sh -c starts it.
ShInit ==
    [alive |-> TRUE, status |-> 0, allexport |-> FALSE, exported |-> EmptyEnv,
     ran |-> FALSE, ranEnv |-> EmptyEnv, saved |-> 0, removed |-> FALSE,
     sourced |-> "no", exitCode |-> 0]

\* What ". file" does to the shell: variables assigned under set -a are
\* exported; a missing file is a fatal error of the special built-in.
ShDot(st, w) ==
    IF FileMissing(w.file)
    THEN [st EXCEPT !.alive = FALSE, !.exitCode = w.dotFailExit, !.sourced = "missing"]
    ELSE [st EXCEPT !.status = 0, !.sourced = "yes",
                    !.exported = IF st.allexport THEN ShSource(w.file, st.exported)
                                 ELSE st.exported]

\* One statement of a composite command. w holds what the container
\* offers: the environment file, whether cd succeeds, the payload's exit code.
ShStep(st, stmt, w) ==
    CASE stmt = "set -a" -> [st EXCEPT !.allexport = TRUE, !.status = 0]
      [] stmt = "set +a" -> [st EXCEPT !.allexport = FALSE, !.status = 0]
      [] stmt = "[ -f ENV_FILE_PATH ] && . ENV_FILE_PATH" ->
            IF FileMissing(w.file) THEN [st EXCEPT !.status = 1, !.sourced = "missing"]
            ELSE ShDot(st, w)
      [] stmt = ". ENV_FILE_PATH 2>/dev/null" -> ShDot(st, w)
      [] stmt = "cd workdir && payload" ->
            IF w.cdOk
            THEN [st EXCEPT !.ran = TRUE, !.ranEnv = st.exported, !.status = w.payloadExit]
            ELSE [st EXCEPT !.status = w.cdFailExit]
      [] stmt = "_exit=$?" -> [st EXCEPT !.saved = st.status]
      [] stmt = "rm -f script_path" -> [st EXCEPT !.removed = TRUE, !.status = 0]
      [] stmt = "exit $_exit" -> [st EXCEPT !.alive = FALSE, !.exitCode = st.saved]

\* sh -c: the statements in order, until the shell exits
RECURSIVE ShRun(_, _, _)
ShRun(stmts, st, w) ==
    IF stmts = <<>> \/ ~st.alive THEN st
    ELSE ShRun(Tail(stmts), ShStep(st, Head(stmts), w), w)

\* The exit code exec_run reports.
ShExitCode(st) == IF st.alive THEN st.status ELSE st.exitCode

(***************************************************************************)
(* Results of an execution (container.py, models.py).                      *)
(***************************************************************************)
MAX_OUTPUT_LENGTH == 10000

\* "\n... [output truncated]"
TRUNC_MARKER ==
    << "\n", ".", ".", ".", " ", "[", "o", "u", "t", "p", "u", "t", " ",
       "t", "r", "u", "n", "c", "a", "t", "e", "d", "]" >>

None == <<"None">>

\* result.output[i] is None (or empty) when the stream carried nothing
NoOutput == None

\* Bytes that are not UTF-8: decode() raises UnicodeDecodeError.
InvalidUtf8 == <<"InvalidUtf8">>

\* result.output[i].decode() if result.output[i] else ""
Decode(o) == IF o = NoOutput THEN <<>> ELSE o

\* Truncation that keeps the end of the stream: s[-MAX_OUTPUT_LENGTH:]
TruncateKeepsTail(s) ==
    IF Len(s) > MAX_OUTPUT_LENGTH
    THEN SubSeq(s, Len(s) - MAX_OUTPUT_LENGTH + 1, Len(s)) \o TRUNC_MARKER
    ELSE s

\* Truncation that starts at the limit: len(s) >= MAX_OUTPUT_LENGTH
TruncateAtLimit(s) ==
    IF Len(s) >= MAX_OUTPUT_LENGTH
    THEN SubSeq(s, 1, MAX_OUTPUT_LENGTH) \o TRUNC_MARKER
    ELSE s

\* if len(s) > MAX_OUTPUT_LENGTH: s = s[:MAX_OUTPUT_LENGTH] + marker
Truncate(s) ==
    IF Len(s) > MAX_OUTPUT_LENGTH
    THEN SubSeq(s, 1, MAX_OUTPUT_LENGTH) \o TRUNC_MARKER
    ELSE s

\* ShpblResponse(...): the fields of the response model
ShpblResponse(success, message, data, stdout, stderr, exit_code) ==
    [success |-> success, message |-> message, data |-> data,
     stdout |-> stdout, stderr |-> stderr, exit_code |-> exit_code]

\* The response both executors build from the result of exec_run.
ExecResponse(exit_code, out, err) ==
    ShpblResponse(exit_code = 0, None, None,
                  Truncate(Decode(out)), Truncate(Decode(err)), exit_code)

\* No response object (yet, or at all).
NoResp == [kind |-> "none"]

\* run_command / run_python without the except clause: the exception
\* leaves the handler and no response object is built.
FailureResponseUncaught(status) == NoResp

\* The response run_command / run_python build from a caught exception.
FailureResponse(status) ==
    ShpblResponse(FALSE, <<"F", "a", "i", "l", "e", "d">>, None, None, status, None)

\* The response of the EnvStore endpoints.
EnvResponse(env) ==
    ShpblResponse(TRUE, None, env, None, None, None)

(***************************************************************************)
(* Requests and the event loop.                                            *)
(***************************************************************************)
Reqs == 1..MaxReqs
Scripts == 1..MaxScripts

BlankReq ==
    [op |-> "none", pc |-> "idle", name |-> <<>>, kv |-> EmptyEnv,
     env |-> EmptyEnv, script |-> 0, uploaded |-> FALSE, sourced |-> "no",
     cdOk |-> FALSE, ran |-> FALSE, ranEnv |-> EmptyEnv, ranScriptOf |-> 0,
     payloadExit |-> 0,
     shellExit |-> 0, removes |-> FALSE, writesSeen |-> 0,
     out |-> None, err |-> None, raised |-> "none", resp |-> NoResp,
     path |-> <<>>, safe_path |-> <<>>, calls |-> <<>>, detail |-> "none",
     archive |-> NoResp, before |-> EmptyEnv, found |-> "none"]

InitRest ==
    /\ envFile = NoFile
    /\ tmp = EmptyEnv
    /\ loop = 0
    /\ req = [r \in Reqs |-> BlankReq]
    /\ writes = <<>>

\* No database script runs.  A table is whether it exists, and its rows.
NoRun ==
    [script |-> "none", pc |-> "done", argc |-> 0, stmt |-> "none", file |-> "none",
     rows |-> <<>>, table0 |-> [exists |-> FALSE, rows |-> <<>>],
     table |-> [exists |-> FALSE, rows |-> <<>>],
     txn |-> [exists |-> FALSE, rows |-> <<>>], calls |-> <<>>, connects |-> 0, conn |-> "none",
     executed |-> FALSE, exists |-> FALSE, i |-> 0, rowcount |-> 0,
     out |-> "none", count |-> -1, raised |-> "none", exit |-> -1]

\* _parse_tree has not been called, or has not returned yet.
NoTree == [raised |-> "pending"]

InitNoTree ==
    /\ traw = <<>>
    /\ troot = <<>>
    /\ tres = NoTree

\* Handlers run in a thread pool: a handler starts whatever else runs.
LoopFreeThreaded == TRUE

\* Every handler is an "async def" without an await: it starts only when
\* no other handler is on the event loop and keeps the loop until it returns.
LoopFree == loop = 0

\* A request reaches the gateway.
Arrive(r, op, name, kv) ==
    /\ req[r].pc = "idle"
    /\ \A q \in 1..(r - 1) : req[q].pc # "idle"
    /\ req' = [req EXCEPT ![r] = [BlankReq EXCEPT !.op = op, !.pc = "pending",
                                                  !.name = name, !.kv = kv]]
    /\ UNCHANGED <<db, tvars, vpath, vres, vresolved, envFile, tmp, loop, writes>>

\* What the gateway sends when a handler ends by raising HTTPException.
Raise(r, status) ==
    [req[r] EXCEPT !.pc = "done", !.raised = status]

(***************************************************************************)
(* EnvStore endpoints (routers/env_service.py).                            *)
(***************************************************************************)
\* get_env: env = _read_env(); return it
GetEnv(r) ==
    /\ req[r].pc = "pending" /\ req[r].op = "get"
    /\ LoopFree
    /\ LET env == ReadEnv(envFile) IN
       req' = [req EXCEPT ![r] = [@ EXCEPT !.pc = "done", !.env = env,
                                           !.resp = EnvResponse(env)]]
    /\ UNCHANGED <<db, tvars, vpath, vres, vresolved, envFile, tmp, loop, writes>>

\* The change in memory where delete forgets its "del env[name]".
MutatedDeleteKeeps(op, name, kv, env) ==
    CASE op = "set"  -> DictSet(env, name, kv[name])
      [] op = "bulk" -> DictUpdate(env, kv)
      [] op = "del"  -> env

\* The dict a mutation writes back, from the dict it read.
Mutated(op, name, kv, env) ==
    CASE op = "set"  -> DictSet(env, name, kv[name])
      [] op = "bulk" -> DictUpdate(env, kv)
      [] op = "del"  -> DictDel(env, name)

\* The mutations without the test of delete: a missing name is dropped
\* silently (env.pop(name, None)) and the file is rewritten.
EnvReadUnchecked(r) ==
    /\ req[r].pc = "pending" /\ req[r].op \in {"set", "del", "bulk"}
    /\ LoopFree
    /\ req' = [req EXCEPT ![r] =
                 [@ EXCEPT !.pc = "read",
                           !.before = ReadEnv(envFile),
                           !.found = IF FileMissing(envFile) THEN envFile ELSE "file",
                           !.env = Mutated(req[r].op, req[r].name, req[r].kv,
                                           ReadEnv(envFile)),
                           !.writesSeen = Len(writes)]]
    /\ loop' = r
    /\ UNCHANGED <<db, tvars, vpath, vres, vresolved, envFile, tmp, writes>>

\* set_env_variable, delete_env_variable, bulk_set_env up to the call of
\* _write_env: env = _read_env(), then the change in memory; delete of a
\* name that is not in the dict raises 404.
EnvRead(r) ==
    /\ req[r].pc = "pending" /\ req[r].op \in {"set", "del", "bulk"}
    /\ LoopFree
    /\ LET env == ReadEnv(envFile) IN
       IF req[r].op = "del" /\ req[r].name \notin DOMAIN env
       THEN /\ req' = [req EXCEPT ![r] = Raise(r, "404")]
            /\ loop' = loop
       ELSE /\ req' = [req EXCEPT ![r] =
                         [@ EXCEPT !.pc = "read",
                                   !.before = env,
                                   !.found = IF FileMissing(envFile) THEN envFile ELSE "file",
                                   !.env = Mutated(req[r].op, req[r].name, req[r].kv, env),
                                   !.writesSeen = Len(writes)]]
            /\ loop' = r
    /\ UNCHANGED <<db, tvars, vpath, vres, vresolved, envFile, tmp, writes>>

\* _write_env without its mkdir: opening the file fails when the directory
\* does not exist, and the exception leaves the handler.
EnvOpenNoMkdir(r) ==
    /\ req[r].pc = "read"
    /\ IF envFile = NoDir
       THEN /\ req' = [req EXCEPT ![r] = Raise(r, "unhandled")]
            /\ loop' = 0
            /\ UNCHANGED envFile
       ELSE /\ envFile' = <<>>
            /\ req' = [req EXCEPT ![r].pc = "opened"]
            /\ UNCHANGED loop
    /\ UNCHANGED <<db, tvars, vpath, vres, vresolved, tmp, writes>>

\* _write_env, first half: mkdir(parents=True, exist_ok=True), build the
\* content, open the file for writing, which creates or truncates it.
EnvOpen(r) ==
    /\ req[r].pc = "read"
    /\ envFile' = <<>>
    /\ req' = [req EXCEPT ![r].pc = "opened"]
    /\ UNCHANGED <<db, tvars, vpath, vres, vresolved, tmp, loop, writes>>

\* _write_env, second half: the content is written and the file closed;
\* the handler returns its response.
EnvWrite(r) ==
    /\ req[r].pc = "opened"
    /\ envFile' = EnvContent(req[r].env)
    /\ writes' = Append(writes, r)
    /\ req' = [req EXCEPT ![r] = [@ EXCEPT !.pc = "done",
                                           !.resp = EnvResponse(req[r].env)]]
    /\ loop' = 0
    /\ UNCHANGED <<db, tvars, vpath, vres, vresolved, tmp>>

\* The values and the bulk mappings the EnvStore requests carry.
EnvValues == { <<"a">>, <<"b">> }

Single(k, v) == [x \in {k} |-> v]

\* bulk_set requests carry two variables (one variable is what set carries).
BulkMaps ==
    UNION { [ks -> EnvValues] : ks \in { S \in SUBSET Names : Cardinality(S) = 2 } }

ArriveEnv(r) ==
    \/ \E n \in Names, v \in EnvValues : Arrive(r, "set", n, Single(n, v))
    \/ \E n \in Names : Arrive(r, "del", n, EmptyEnv)
    \/ \E kv \in BulkMaps : Arrive(r, "bulk", <<>>, kv)
    \/ Arrive(r, "get", <<>>, EmptyEnv)

InitEnv ==
    /\ vpath = <<>>
    /\ vres = "none"
    /\ vresolved = <<>>
    /\ db = NoRun
    /\ InitRest
    /\ InitNoTree

NextEnv ==
    \E r \in Reqs :
        \/ ArriveEnv(r)
        \/ GetEnv(r)
        \/ EnvRead(r)
        \/ EnvOpen(r)
        \/ EnvWrite(r)

SpecEnv == InitEnv /\ [][NextEnv]_vars

(***************************************************************************)
(* The EnvStore with names and values of any text.                         *)
(***************************************************************************)
\* The set requests: a plain name (A, B) with a value that is plain, holds
\* "=", starts with a blank or holds a line break; and a name that is
\* plain, holds "=" or starts with "#" with a plain value.
TextSets ==
    { Single(n, v) : n \in {<<"A">>, <<"B">>},
                     v \in { <<"a">>, <<"a", "=", "b">>, <<" ", "a">>, <<"a", "\n", "b">> } }
        \cup { Single(n, <<"a">>) :
                  n \in { <<"A">>, <<"B">>, <<"A", "=", "B">>, <<"#", "A">> } }

ArriveEnvText(r) ==
    \/ \E kv \in TextSets : Arrive(r, "set", CHOOSE n \in DOMAIN kv : TRUE, kv)
    \/ \E kv \in TextSets : Arrive(r, "del", CHOOSE n \in DOMAIN kv : TRUE, EmptyEnv)
    \/ Arrive(r, "bulk", <<>>, DictSet(Single(<<"B">>, <<"b">>), <<"A">>, <<"a", "=", "b">>))
    \/ Arrive(r, "get", <<>>, EmptyEnv)

InitEnvText ==
    /\ envFile \in {NoDir, NoFile}
    /\ tmp = EmptyEnv
    /\ loop = 0
    /\ req = [r \in Reqs |-> BlankReq]
    /\ writes = <<>>
    /\ vpath = <<>>
    /\ vres = "none"
    /\ vresolved = <<>>
    /\ db = NoRun
    /\ InitNoTree

NextEnvText ==
    \E r \in Reqs :
        \/ ArriveEnvText(r)
        \/ GetEnv(r)
        \/ EnvRead(r)
        \/ EnvOpen(r)
        \/ EnvWrite(r)

SpecEnvText == InitEnvText /\ [][NextEnvText]_vars

(***************************************************************************)
(* Command and code execution (container.py, main.py).                     *)
(***************************************************************************)
\* A runtime call wrapped in a retry: it is issued a second time.
CalledTwice(calls, call) == calls \o <<call, call>>

\* A call of the container runtime is issued: calls is the list of the
\* runtime calls the request has made so far.
Called(calls, call) == Append(calls, call)

\* The calls of a request from containers.get to the call that fails or,
\* when none fails, to the last one.
CallsUpTo(names, oks) ==
    LET n == IF \E i \in 1..Len(oks) : ~oks[i]
             THEN CHOOSE i \in 1..Len(oks) : ~oks[i] /\ \A j \in 1..(i - 1) : oks[j]
             ELSE Len(oks)
        F[i \in 0..n] == IF i = 0 THEN <<>> ELSE Called(F[i - 1], names[i])
    IN F[n]

\* What the container offers one shell run.
World(cdOk, payloadExit, cdFailExit, dotFailExit) ==
    [file |-> envFile, cdOk |-> cdOk, payloadExit |-> payloadExit,
     cdFailExit |-> cdFailExit, dotFailExit |-> dotFailExit]

\* The request record once the shell of exec_run runs the composite.
ShellStarted(r, sh) ==
    [req[r] EXCEPT !.pc = "exec", !.sourced = sh.sourced, !.ran = sh.ran,
                   !.ranEnv = sh.ranEnv, !.shellExit = ShExitCode(sh),
                   !.removes = sh.removed, !.writesSeen = Len(writes)]

\* The request record once exec_run has returned: the streams are decoded
\* (a decode error is answered as a failure, like any exception), then
\* truncated, and the response is built.
Returned(r, out, err) ==
    IF out = InvalidUtf8 \/ err = InvalidUtf8
    THEN [Raise(r, "500") EXCEPT !.out = out, !.err = err,
                                 !.resp = FailureResponse("500")]
    ELSE [req[r] EXCEPT !.pc = "done", !.out = out, !.err = err,
                        !.resp = ExecResponse(req[r].shellExit, out, err)]

\* run_command -> exec_in_container, up to the blocking exec_run call:
\* containers.get (NotFound -> 404), then exec_run (any failure -> 500);
\* both exceptions are caught by run_command and answered as a failure.
CmdStart(r, containerOk, execOk, cdOk, payloadExit, cdFailExit) ==
    /\ req[r].pc = "pending" /\ req[r].op = "cmd"
    /\ LoopFree
    /\ IF ~containerOk \/ ~execOk
       THEN LET status == IF ~containerOk THEN "404" ELSE "500" IN
            /\ req' = [req EXCEPT ![r] = [Raise(r, status) EXCEPT
                                            !.calls = CallsUpTo(<<"containers.get", "exec_run">>,
                                                                <<containerOk, execOk>>),
                                            !.resp = FailureResponse(status)]]
            /\ loop' = loop
       ELSE LET sh == ShRun(CommandComposite, ShInit,
                            World(cdOk, payloadExit, cdFailExit, cdFailExit)) IN
            /\ req' = [req EXCEPT ![r] = [ShellStarted(r, sh) EXCEPT
                                            !.calls = CallsUpTo(<<"containers.get", "exec_run">>,
                                                                <<TRUE, TRUE>>),
                                            !.payloadExit = payloadExit, !.cdOk = cdOk]]
            /\ loop' = r
    /\ UNCHANGED <<db, tvars, vpath, vres, vresolved, envFile, tmp, writes>>

\* exec_run returns: the streams are decoded and truncated, the response built.
CmdReturn(r, out, err) ==
    /\ req[r].pc = "exec" /\ req[r].op = "cmd"
    /\ req' = [req EXCEPT ![r] = Returned(r, out, err)]
    /\ loop' = 0
    /\ UNCHANGED <<db, tvars, vpath, vres, vresolved, envFile, tmp, writes>>

\* uuid.uuid4().hex[:12]: any name of the name space
ScriptNames == Scripts

\* put_archive("/tmp", tar): the entry is created, or replaces the file
\* of that name
PutScript(files, name, r) == [n \in DOMAIN files \cup {name} |-> IF n = name THEN r ELSE files[n]]

\* rm -f script_path
RemoveScript(files, name) == [n \in DOMAIN files \ {name} |-> files[n]]

\* run_python -> exec_python_in_container, up to put_archive: containers.get,
\* the script name, the tar archive, the upload.
PyUpload(r, containerOk, putOk, name) ==
    /\ req[r].pc = "pending" /\ req[r].op = "py"
    /\ LoopFree
    /\ IF ~containerOk \/ ~putOk
       THEN LET status == IF ~containerOk THEN "404" ELSE "500" IN
            /\ req' = [req EXCEPT ![r] = [Raise(r, status) EXCEPT
                                            !.calls = CallsUpTo(<<"containers.get", "put_archive">>,
                                                                <<containerOk, putOk>>),
                                            !.resp = FailureResponse(status)]]
            /\ UNCHANGED <<tmp, loop>>
       ELSE /\ tmp' = PutScript(tmp, name, r)
            /\ req' = [req EXCEPT ![r] = [@ EXCEPT !.pc = "uploaded", !.script = name,
                                                   !.calls = CallsUpTo(<<"containers.get", "put_archive">>,
                                                                       <<TRUE, TRUE>>),
                                                   !.uploaded = TRUE]]
            /\ loop' = r
    /\ UNCHANGED <<db, tvars, vpath, vres, vresolved, envFile, writes>>

\* exec_python_in_container from full_command to the blocking exec_run call.
PyStart(r, execOk, cdOk, payloadExit, cdFailExit, dotFailExit) ==
    /\ req[r].pc = "uploaded"
    /\ IF ~execOk
       THEN /\ req' = [req EXCEPT ![r] = [Raise(r, "500") EXCEPT
                                            !.calls = Called(req[r].calls, "exec_run"),
                                            !.resp = FailureResponse("500")]]
            /\ loop' = 0
       ELSE LET sh == ShRun(PythonComposite, ShInit,
                            World(cdOk, payloadExit, cdFailExit, dotFailExit)) IN
            /\ req' = [req EXCEPT ![r] =
                         [ShellStarted(r, sh) EXCEPT
                            !.calls = Called(req[r].calls, "exec_run"),
                            !.payloadExit = payloadExit, !.cdOk = cdOk,
                            !.ranScriptOf = IF sh.ran /\ req[r].script \in DOMAIN tmp
                                            THEN tmp[req[r].script] ELSE 0]]
            /\ loop' = loop
    /\ UNCHANGED <<db, tvars, vpath, vres, vresolved, envFile, tmp, writes>>

\* The shell ends (after its rm -f, when it got that far) and exec_run returns.
PyReturn(r, out, err) ==
    /\ req[r].pc = "exec" /\ req[r].op = "py"
    /\ tmp' = IF req[r].removes THEN RemoveScript(tmp, req[r].script) ELSE tmp
    /\ req' = [req EXCEPT ![r] = Returned(r, out, err)]
    /\ loop' = 0
    /\ UNCHANGED <<db, tvars, vpath, vres, vresolved, envFile, writes>>

\* Exit codes of the payload: success, and killed by a signal (128 + 9).
PayloadExits == {0, 137}

\* Exit status of a failed cd and of a shell aborted by ".": 2 in dash, 1 in
\* bash; one shell gives both.
FailExits == {1, 2}

\* The steps of the two executors, with the streams the runtime may return.
ExecSteps(r, streams) ==
    \/ \E containerOk, execOk, cdOk \in BOOLEAN, pe \in PayloadExits, fe \in FailExits :
         CmdStart(r, containerOk, execOk, cdOk, pe, fe)
    \/ \E out, err \in streams : CmdReturn(r, out, err)
    \/ \E containerOk, putOk \in BOOLEAN, name \in ScriptNames :
         PyUpload(r, containerOk, putOk, name)
    \/ \E execOk, cdOk \in BOOLEAN, pe \in PayloadExits, fe \in FailExits :
         PyStart(r, execOk, cdOk, pe, fe, fe)
    \/ \E out, err \in streams : PyReturn(r, out, err)

\* The values set before an execution: a plain word, and two words.
ExecValues == { <<"a">>, <<"a", " ", "a">> }

ArriveExec(r) ==
    \/ Arrive(r, "cmd", <<>>, EmptyEnv)
    \/ Arrive(r, "py", <<>>, EmptyEnv)
    \/ \E v \in ExecValues : Arrive(r, "set", <<"A">>, Single(<<"A">>, v))

NextExec ==
    \E r \in Reqs :
        \/ ArriveExec(r)
        \/ EnvRead(r)
        \/ EnvOpen(r)
        \/ EnvWrite(r)
        \/ ExecSteps(r, {NoOutput})

SpecExec == InitEnv /\ [][NextExec]_vars

\* Captured streams around the limit: character i of a stream depends on i.
StreamChar(k) == IF k % 3 = 0 THEN "x" ELSE IF k % 3 = 1 THEN "y" ELSE "z"

Stream(n, seed) == [i \in 1..n |-> StreamChar(i + seed)]

StreamLengths == {1} \cup ((MAX_OUTPUT_LENGTH - 1)..(MAX_OUTPUT_LENGTH + MaxOver))

TruncStreams == {NoOutput, InvalidUtf8} \cup { Stream(n, sd) : n \in StreamLengths, sd \in {0, 1} }

ArriveTrunc(r) ==
    \/ Arrive(r, "cmd", <<>>, EmptyEnv)
    \/ Arrive(r, "py", <<>>, EmptyEnv)

\* One execution request, with every pair of captured streams.
NextTrunc ==
    \/ ArriveTrunc(1)
    \/ ExecSteps(1, TruncStreams)

SpecTrunc == InitEnv /\ [][NextTrunc]_vars

(***************************************************************************)
(* The file tree built from a find listing (routers/file_service.py).      *)
(***************************************************************************)
\* os.path.basename(p): the text after the last "/"
Basename(p) == LET parts == Split(p, "/") IN parts[Len(parts)]

\* str(PurePosixPath(p).parent): the last kept segment is dropped; a path
\* without segments (a root, or ".") is its own parent.
ParentStr(p) ==
    LET root == PosixRoot(p)
        parts == PosixParts(p)
    IN IF parts = <<>> THEN PurePosixPathStr(p)
       ELSE LET up == SubSeq(parts, 1, Len(parts) - 1) IN
            IF root = <<>> /\ up = <<>> THEN <<".">> ELSE root \o Join(up, <<"/">>)

\* [l for l in raw_output.strip().splitlines() if l.strip()]
TreeLines(raw_output) ==
    LET NonBlank(l) == Strip(l) # <<>> IN
    SelectSeq(SplitLines(Strip(raw_output)), NonBlank)

\* The empty nodes dict: its keys in insertion order, and the node of each.
NoNodes == [keys |-> <<>>, node |-> EmptyEnv]

\* First loop of _parse_tree: line.split(" ", 1) gives the type character
\* and the path; a line without a blank is skipped; a repeated path
\* replaces the node and keeps its place in the dict.
RECURSIVE TreeNodes(_, _)
TreeNodes(lines, nodes) ==
    IF lines = <<>> THEN nodes
    ELSE LET line == Head(lines) IN
         IF ~Contains(line, " ") THEN TreeNodes(Tail(lines), nodes)
         ELSE LET i == FirstIndex(line, " ")
                  type_char == SubSeq(line, 1, i - 1)
                  abs_path == SubSeq(line, i + 1, Len(line))
                  entry_type == IF type_char = <<"d">> THEN "directory" ELSE "file"
                  name == IF Basename(abs_path) # <<>> THEN Basename(abs_path)
                          ELSE abs_path
              IN TreeNodes(Tail(lines),
                     [keys |-> IF abs_path \in DOMAIN nodes.node THEN nodes.keys
                               ELSE Append(nodes.keys, abs_path),
                      node |-> DictSet(nodes.node, abs_path,
                                       [name |-> name, path |-> abs_path,
                                        type |-> entry_type])])

\* The child lists before the second loop: [] for a directory, None (no
\* entry here) for a file.
NoChildren(nodes) ==
    [p \in { q \in DOMAIN nodes.node : nodes.node[q].type = "directory" } |-> <<>>]

\* Second loop of _parse_tree in one pass: a node is attached only to a
\* parent that came earlier in the listing.
RECURSIVE TreeLinkSeenOnly(_, _, _)
TreeLinkSeenOnly(todo, nodes, link) ==
    IF todo = <<>> \/ ~link.ok THEN link
    ELSE LET abs_path == Head(todo)
             parent_path == ParentStr(abs_path)
         IN IF /\ parent_path \in DOMAIN nodes.node
               /\ parent_path # abs_path
               /\ \A i \in 1..Len(todo) : todo[i] # parent_path
            THEN IF nodes.node[parent_path].type # "directory"
                 THEN [ok |-> FALSE, children |-> link.children]
                 ELSE TreeLinkSeenOnly(Tail(todo), nodes,
                          [link EXCEPT !.children[parent_path] = Append(@, abs_path)])
            ELSE TreeLinkSeenOnly(Tail(todo), nodes, link)

\* Second loop of _parse_tree, over the nodes in dict order: a node whose
\* parent path is a key other than its own path is appended to the
\* parent's children; appending to the None of a file raises AttributeError.
RECURSIVE TreeLink(_, _, _)
TreeLink(todo, nodes, link) ==
    IF todo = <<>> \/ ~link.ok THEN link
    ELSE LET abs_path == Head(todo)
             parent_path == ParentStr(abs_path)
         IN IF parent_path \in DOMAIN nodes.node /\ parent_path # abs_path
            THEN IF nodes.node[parent_path].type # "directory"
                 THEN [ok |-> FALSE, children |-> link.children]
                 ELSE TreeLink(Tail(todo), nodes,
                          [link EXCEPT !.children[parent_path] = Append(@, abs_path)])
            ELSE TreeLink(Tail(todo), nodes, link)

\* The node dict of path p with its children nested in it.
RECURSIVE TreeNode(_, _, _)
TreeNode(p, nodes, children) ==
    [name |-> nodes.node[p].name, path |-> p, type |-> nodes.node[p].type,
     children |-> IF p \in DOMAIN children
                  THEN [i \in 1..Len(children[p]) |->
                            TreeNode(children[p][i], nodes, children)]
                  ELSE None]

\* The list of the nested nodes of the paths ps.
TreeList(ps, nodes, children) ==
    [i \in 1..Len(ps) |-> TreeNode(ps[i], nodes, children)]

\* _parse_tree that ignores root and returns every node.
ParseTreeAllNodes(raw_output, root) ==
    LET nodes == TreeNodes(TreeLines(raw_output), NoNodes)
        link == TreeLink(nodes.keys, nodes, [ok |-> TRUE, children |-> NoChildren(nodes)])
    IN IF ~link.ok
       THEN [raised |-> "AttributeError", tree |-> <<>>, nodes |-> nodes,
             children |-> link.children]
       ELSE [raised |-> "none", nodes |-> nodes, children |-> link.children,
             tree |-> TreeList(nodes.keys, nodes, link.children)]

\* _parse_tree(raw_output, root): what it returns (tree) or raises, with
\* the nodes dict and the child lists it has built by then.
ParseTree(raw_output, root) ==
    LET nodes == TreeNodes(TreeLines(raw_output), NoNodes)
        link == TreeLink(nodes.keys, nodes, [ok |-> TRUE, children |-> NoChildren(nodes)])
    IN IF ~link.ok
       THEN [raised |-> "AttributeError", tree |-> <<>>, nodes |-> nodes,
             children |-> link.children]
       ELSE [raised |-> "none", nodes |-> nodes, children |-> link.children,
             tree |-> IF root \in DOMAIN nodes.node
                      THEN IF root \in DOMAIN link.children
                           THEN TreeList(link.children[root], nodes, link.children)
                           ELSE <<>>
                      ELSE TreeList(nodes.keys, nodes, link.children)]

\* Lines find prints ("%y %p"): the filesystem root, a directory in it, a
\* directory and a file in that one, a file in the inner directory, and a
\* line without a blank.
ListingLines ==
    { <<"d", " ", "/">>,
      <<"d", " ", "/", "w">>,
      <<"d", " ", "/", "w", "/", "a">>,
      <<"f", " ", "/", "w", "/", "a", "/", "b">>,
      <<"f", " ", "/", "w", "/", "c">>,
      <<"t", "o", "t", "a", "l">> }

\* The roots asked for.
TreeRoots ==
    { <<"/">>, <<"/", "w">>, <<"/", "w", "/", "a">>,
      <<"/", "w", "/", "a", "/", "b">>, <<"/", "w", "/", "c">> }

\* Sequences of at most n distinct lines.
RECURSIVE Listings(_)
Listings(n) ==
    IF n = 0 THEN { <<>> }
    ELSE LET shorter == Listings(n - 1) IN
         shorter \cup { Append(ls, x) : ls \in { q \in shorter : Len(q) = n - 1 },
                                        x \in ListingLines }

DistinctLines(ls) == \A i, j \in 1..Len(ls) : i # j => ls[i] # ls[j]

\* The output of find: every line ends with a line break.
RawOutput(ls) == Flatten([i \in 1..Len(ls) |-> ls[i] \o <<"\n">>])

InitTree ==
    /\ \E ls \in { l \in Listings(MaxLines) : DistinctLines(l) } : traw = RawOutput(ls)
    /\ troot \in TreeRoots
    /\ tres = NoTree
    /\ vpath = <<>>
    /\ vres = "none"
    /\ vresolved = <<>>
    /\ db = NoRun
    /\ InitRest

\* One call of _parse_tree(traw, troot).
ParseTreeCall ==
    /\ tres = NoTree
    /\ tres' = ParseTree(traw, troot)
    /\ UNCHANGED <<traw, troot, vpath, vres, vresolved, envFile, tmp, loop, req, writes, db>>

NextTree == ParseTreeCall

SpecTree == InitTree /\ [][NextTree]_vars

\* Sequences of at most n lines, repeated lines included: the lines of find
\* and an entry below the file /w/c, as a listing has it when a name holds
\* a line break.
RECURSIVE AnyListings(_)
AnyListings(n) ==
    IF n = 0 THEN { <<>> }
    ELSE LET shorter == AnyListings(n - 1) IN
         shorter \cup { Append(ls, x) : ls \in { q \in shorter : Len(q) = n - 1 },
                                        x \in ListingLines \cup
                                            { <<"f", " ", "/", "w", "/", "c", "/", "d">> } }

InitTreeAny ==
    /\ \E ls \in AnyListings(MaxLines) : traw = RawOutput(ls)
    /\ troot \in TreeRoots
    /\ tres = NoTree
    /\ vpath = <<>>
    /\ vres = "none"
    /\ vresolved = <<>>
    /\ db = NoRun
    /\ InitRest

SpecTreeAny == InitTreeAny /\ [][NextTree]_vars

(***************************************************************************)
(* File browsing and log retrieval (routers/file_service.py, main.py).     *)
(* Each request keeps the container-engine calls it has made in "calls".   *)
(***************************************************************************)
\* The paths asked for: the root, an entry in it, a path outside it, and a
\* path that starts with the root and climbs out of it.
FilePaths ==
    { ALLOWED_ROOT,
      ALLOWED_ROOT \o <<"/", "a">>,
      <<"/", "e", "t", "c">>,
      ALLOWED_ROOT \o <<"/", ".", ".">> }

\* What exec_run returns for find on the path p: nothing (no such path), p
\* as a directory alone, or with an entry, in either order of the lines, or
\* bytes that are not UTF-8.
FindOutputs(p) ==
    LET dir == <<"d", " ">> \o p
        entry == <<"f", " ">> \o p \o <<"/", "b">>
    IN { NoOutput, InvalidUtf8, RawOutput(<<dir>>), RawOutput(<<dir, entry>>),
         RawOutput(<<entry, dir>>) }

AllFindOutputs == UNION { FindOutputs(PurePosixPathStr(p)) : p \in FilePaths }

\* raise HTTPException(status_code, detail): it leaves the handler, and
\* the framework answers with the status and {"detail": ...}.
RaiseHttp(r, status, detail) ==
    [Raise(r, status) EXCEPT !.detail = detail]

\* get_file_tree up to the blocking exec_run of find: _validate_path, then
\* exec_in_container (containers.get, exec_run); its HTTPException is not
\* caught by get_file_tree.
TreeStart(r, containerOk, execOk) ==
    /\ req[r].pc = "pending" /\ req[r].op = "tree"
    /\ LoopFree
    /\ LET v == ValidatePathResult(req[r].path) IN
       IF v.status = "rejected"
       THEN /\ req' = [req EXCEPT ![r] = RaiseHttp(r, "400", "Path must be within")]
            /\ loop' = loop
       ELSE IF ~containerOk
       THEN /\ req' = [req EXCEPT ![r] =
                         [RaiseHttp(r, "404", "Container not found")
                            EXCEPT !.calls = <<"containers.get">>]]
            /\ loop' = loop
       ELSE IF ~execOk
       THEN /\ req' = [req EXCEPT ![r] =
                         [RaiseHttp(r, "500", "Execution error")
                            EXCEPT !.calls = <<"containers.get", "exec_run">>]]
            /\ loop' = loop
       ELSE /\ req' = [req EXCEPT ![r] =
                         [@ EXCEPT !.pc = "exec", !.safe_path = v.resolved,
                                   !.calls = <<"containers.get", "exec_run">>]]
            /\ loop' = r
    /\ UNCHANGED <<db, tvars, vpath, vres, vresolved, envFile, tmp, writes>>

\* find has ended: exec_in_container decodes and truncates the output,
\* get_file_tree parses result.stdout and returns the tree. A decode
\* error is an HTTPException 500 of exec_in_container; an exception of
\* _parse_tree is not handled at all.
TreeReturn(r, out) ==
    /\ req[r].pc = "exec" /\ req[r].op = "tree"
    /\ out \in FindOutputs(req[r].safe_path)
    /\ req' = [req EXCEPT ![r] =
         IF out = InvalidUtf8
         THEN RaiseHttp(r, "500", "Execution error")
         ELSE LET result == ExecResponse(0, out, NoOutput)
                  parsed == ParseTree(result.stdout, req[r].safe_path)
              IN IF parsed.raised # "none"
                 THEN RaiseHttp(r, "unhandled", parsed.raised)
                 ELSE [@ EXCEPT !.pc = "done", !.out = out,
                                !.resp = ShpblResponse(TRUE, <<"File tree for">>,
                                             [path |-> req[r].safe_path,
                                              tree |-> parsed.tree],
                                             None, None, None)]]
    /\ loop' = 0
    /\ UNCHANGED <<db, tvars, vpath, vres, vresolved, envFile, tmp, writes>>

\* A tar archive as tarfile reads it: its members in order, or not a tar
\* archive at all (tarfile.open or getmembers raises TarError).
Member(name, type, linkname, data) ==
    [name |-> name, type |-> type, linkname |-> linkname, data |-> data]

FileMember == Member("a", "file", "", <<"x", "y">>)
DirMember == Member("d", "dir", "", <<>>)
FifoMember == Member("p", "fifo", "", <<>>)
LinkMember == Member("l", "link", "a", <<>>)

Archive(members) == [ok |-> TRUE, members |-> members]
Malformed == [ok |-> FALSE, members |-> <<>>]

Archives ==
    { Malformed, Archive(<<>>),
      Archive(<<FileMember>>), Archive(<<DirMember>>), Archive(<<FifoMember>>),
      Archive(<<LinkMember>>),
      Archive(<<FileMember, DirMember>>), Archive(<<DirMember, FileMember>>),
      Archive(<<LinkMember, FileMember>>) }

\* extractfile whose result is read without the checks: any member gives
\* its (empty) data.
ExtractFileUnchecked(archive, member) == [kind |-> "data", data |-> member.data]

\* tar.extractfile(member): the data of a regular file; for a link, the
\* data of the member it names (KeyError when the archive has none); None
\* for any other member.
ExtractFile(archive, member) ==
    IF member.type = "file" THEN [kind |-> "data", data |-> member.data]
    ELSE IF member.type = "link"
    THEN LET targets == { i \in 1..Len(archive.members) :
                            /\ archive.members[i].name = member.linkname
                            /\ archive.members[i].type = "file" }
         IN IF targets = {} THEN [kind |-> "KeyError", data |-> <<>>]
            ELSE [kind |-> "data",
                  data |-> archive.members[CHOOSE i \in targets : TRUE].data]
    ELSE [kind |-> "None", data |-> <<>>]

\* download_file up to the blocking get_archive: _validate_path, then
\* containers.get (NotFound -> 404, any other exception is not handled),
\* then get_archive (NotFound -> 404, any other exception -> 500).
DownloadStart(r, container, archiveOk) ==
    /\ req[r].pc = "pending" /\ req[r].op = "download"
    /\ LoopFree
    /\ LET v == ValidatePathResult(req[r].path) IN
       IF v.status = "rejected"
       THEN /\ req' = [req EXCEPT ![r] = RaiseHttp(r, "400", "Path must be within")]
            /\ loop' = loop
       ELSE IF container # "ok"
       THEN /\ req' = [req EXCEPT ![r] =
                         [(IF container = "NotFound"
                           THEN RaiseHttp(r, "404", "Sandbox container not found")
                           ELSE RaiseHttp(r, "unhandled", "APIError"))
                            EXCEPT !.calls = <<"containers.get">>]]
            /\ loop' = loop
       ELSE IF archiveOk # "ok"
       THEN /\ req' = [req EXCEPT ![r] =
                         [(IF archiveOk = "NotFound"
                           THEN RaiseHttp(r, "404", "File not found")
                           ELSE RaiseHttp(r, "500", "APIError"))
                            EXCEPT !.calls = <<"containers.get", "get_archive">>]]
            /\ loop' = loop
       ELSE /\ req' = [req EXCEPT ![r] =
                         [@ EXCEPT !.pc = "archive", !.safe_path = v.resolved,
                                   !.calls = <<"containers.get", "get_archive">>]]
            /\ loop' = r
    /\ UNCHANGED <<db, tvars, vpath, vres, vresolved, envFile, tmp, writes>>

\* The archive has arrived: download_file opens it and answers with the
\* bytes of the first member.
DownloadReturn(r, archive) ==
    /\ req[r].pc = "archive" /\ req[r].op = "download"
    /\ req' = [req EXCEPT ![r] =
         [(IF ~archive.ok THEN RaiseHttp(r, "500", "Tar extraction error")
           ELSE IF archive.members = <<>> THEN RaiseHttp(r, "404", "Archive is empty")
           ELSE LET member == archive.members[1]
                    extracted == ExtractFile(archive, member)
                IN IF member.type = "dir" THEN RaiseHttp(r, "400", "Path is a directory")
                   ELSE IF extracted.kind = "KeyError"
                        THEN RaiseHttp(r, "unhandled", "KeyError")
                   ELSE IF extracted.kind = "None"
                        THEN RaiseHttp(r, "500", "Could not extract file from archive")
                   ELSE [req[r] EXCEPT !.pc = "done",
                                       !.resp = [kind |-> "StreamingResponse",
                                                 body |-> extracted.data,
                                                 filename |-> Basename(req[r].safe_path)]])
            EXCEPT !.archive = archive]]
    /\ loop' = 0
    /\ UNCHANGED <<db, tvars, vpath, vres, vresolved, envFile, tmp, writes>>

\* max_chars of get_terminal_logs
MAX_LOG_CHARS == 5000

\* Pruning that keeps the start of the text: logs[:max_chars]
PruneLogsKeepsHead(logs) ==
    IF Len(logs) > MAX_LOG_CHARS THEN SubSeq(logs, 1, MAX_LOG_CHARS) ELSE logs

\* if len(logs) > max_chars: logs = logs[-max_chars:]
PruneLogs(logs) ==
    IF Len(logs) > MAX_LOG_CHARS
    THEN SubSeq(logs, Len(logs) - MAX_LOG_CHARS + 1, Len(logs))
    ELSE logs

\* The responses get_terminal_logs builds from a caught exception.
LogsFailure(message) == ShpblResponse(FALSE, message, None, None, None, None)

\* get_terminal_logs up to the call of container.logs; NotFound and any
\* other exception are caught and answered as a failure.
LogsStart(r, container) ==
    /\ req[r].pc = "pending" /\ req[r].op = "logs"
    /\ LoopFree
    /\ IF container # "ok"
       THEN /\ req' = [req EXCEPT ![r] =
                         [Raise(r, IF container = "NotFound" THEN "404" ELSE "500")
                            EXCEPT !.calls = <<"containers.get">>,
                                   !.resp = LogsFailure(IF container = "NotFound"
                                                        THEN <<"Container not found">>
                                                        ELSE <<"Failed to retrieve container logs">>)]]
            /\ loop' = loop
       ELSE /\ req' = [req EXCEPT ![r] =
                         [@ EXCEPT !.pc = "logs",
                                   !.calls = <<"containers.get", "logs">>]]
            /\ loop' = r
    /\ UNCHANGED <<db, tvars, vpath, vres, vresolved, envFile, tmp, writes>>

\* container.logs has returned: the bytes are decoded, pruned to the last
\* max_chars characters and returned.
LogsReturn(r, text) ==
    /\ req[r].pc = "logs" /\ req[r].op = "logs"
    /\ req' = [req EXCEPT ![r] =
         IF text = InvalidUtf8
         THEN [Raise(r, "500") EXCEPT
                 !.out = text,
                 !.resp = LogsFailure(<<"Failed to retrieve container logs">>)]
         ELSE LET pruned == Len(text) > MAX_LOG_CHARS
                  logs == PruneLogs(text)
              IN [@ EXCEPT !.pc = "done", !.out = text,
                           !.resp = ShpblResponse(TRUE,
                                        IF pruned THEN <<"Logs retrieved (pruned)">>
                                        ELSE <<"Logs retrieved">>,
                                        [logs |-> logs, pruned |-> pruned,
                                         character_count |-> Len(logs)],
                                        None, None, None)]]
    /\ loop' = 0
    /\ UNCHANGED <<db, tvars, vpath, vres, vresolved, envFile, tmp, writes>>

\* Log texts around the limit, and bytes that are not UTF-8.
LogLengths == {0, 1} \cup ((MAX_LOG_CHARS - 1)..(MAX_LOG_CHARS + MaxOver))

LogTexts == {InvalidUtf8} \cup { Stream(n, sd) : n \in LogLengths, sd \in {0, 1} }

EngineOutcomes == {"ok", "NotFound", "APIError"}

\* A request with a path reaches the gateway.
ArrivePath(r, op, path) ==
    /\ req[r].pc = "idle"
    /\ \A q \in 1..(r - 1) : req[q].pc # "idle"
    /\ req' = [req EXCEPT ![r] = [BlankReq EXCEPT !.op = op, !.pc = "pending",
                                                  !.path = path]]
    /\ UNCHANGED <<db, tvars, vpath, vres, vresolved, envFile, tmp, loop, writes>>

ArriveFiles(r) ==
    \/ \E p \in FilePaths : ArrivePath(r, "tree", p)
    \/ \E p \in FilePaths : ArrivePath(r, "download", p)
    \/ ArrivePath(r, "logs", <<>>)

\* The steps of the file and log endpoints.
FileSteps(r) ==
    \/ \E containerOk, execOk \in BOOLEAN : TreeStart(r, containerOk, execOk)
    \/ \E out \in AllFindOutputs : TreeReturn(r, out)
    \/ \E container, archiveOk \in EngineOutcomes : DownloadStart(r, container, archiveOk)
    \/ \E archive \in Archives : DownloadReturn(r, archive)
    \/ \E container \in EngineOutcomes : LogsStart(r, container)
    \/ \E text \in LogTexts : LogsReturn(r, text)

\* One request of any kind: every endpoint of the gateway.
NextGateway ==
    \/ ArriveFiles(1)
    \/ ArriveEnv(1)
    \/ ArriveTrunc(1)
    \/ FileSteps(1)
    \/ GetEnv(1)
    \/ EnvRead(1)
    \/ EnvOpen(1)
    \/ EnvWrite(1)
    \/ ExecSteps(1, {NoOutput, InvalidUtf8})

InitGateway ==
    /\ envFile \in {NoFile, EnvContent(Single(<<"A">>, <<"a">>))}
    /\ tmp = EmptyEnv
    /\ loop = 0
    /\ req = [r \in Reqs |-> BlankReq]
    /\ writes = <<>>
    /\ vpath = <<>>
    /\ vres = "none"
    /\ vresolved = <<>>
    /\ db = NoRun
    /\ InitNoTree

SpecGateway == InitGateway /\ [][NextGateway]_vars

(***************************************************************************)
(* Path validation as a state machine.                                     *)
(***************************************************************************)
InitPath ==
    /\ vpath \in PathInputs
    /\ vres = "none"
    /\ vresolved = <<>>
    /\ db = NoRun
    /\ InitRest
    /\ InitNoTree

\* One call of _validate_path(vpath).
ValidatePath ==
    /\ vres = "none"
    /\ LET out == ValidatePathResult(vpath) IN
       /\ vres' = out.status
       /\ vresolved' = out.resolved
    /\ UNCHANGED <<db, tvars, vpath, envFile, tmp, loop, req, writes>>

NextPath == ValidatePath

SpecPath == InitPath /\ [][NextPath]_vars

(***************************************************************************)
(* The database scripts of the sandbox (skills/db-operations/scripts and   *)
(* lib/db.py).  db is one run of one script: its arguments, its position,  *)
(* the calls it has made on its cursor and connection (calls), the table   *)
(* as committed (table) and as the open transaction sees it (txn).  A call *)
(* that the scripts guard returns or raises.                               *)
(***************************************************************************)
\* The data rows of a CSV file, a row being its value.
CsvRows == UNION { [1..n -> {1, 2}] : n \in 0..MaxRows }

\* The runs.  run_query.py with and without its SQL argument, the statement
\* reading rows, writing a row, or writing a row and returning it;
\* import_csv.py with 0 to 3 arguments, its file missing, empty, or with a
\* header and rows, the table there or not; execute_write with a statement
\* of either kind.
DbRuns ==
    { [NoRun EXCEPT !.script = "run_query", !.pc = "start", !.argc = argc,
                    !.stmt = stmt, !.table0.exists = TRUE, !.table.exists = TRUE,
                    !.txn.exists = TRUE] :
          argc \in {1, 2}, stmt \in {"select", "insert", "insert_returning"} }
    \cup { [NoRun EXCEPT !.script = "import_csv", !.pc = "start", !.argc = argc,
                    !.file = "ok", !.rows = rows, !.table0.exists = e,
                    !.table.exists = e, !.txn.exists = e] :
          argc \in 1..4, rows \in CsvRows, e \in BOOLEAN }
    \cup { [NoRun EXCEPT !.script = "import_csv", !.pc = "start", !.argc = argc,
                    !.file = file, !.table0.exists = TRUE, !.table.exists = TRUE,
                    !.txn.exists = TRUE] :
          argc \in 1..4, file \in {"missing", "noheader"} }
    \cup { [NoRun EXCEPT !.script = "execute_write", !.pc = "connect",
                    !.stmt = stmt, !.table0.exists = TRUE, !.table.exists = TRUE,
                    !.txn.exists = TRUE] :
          stmt \in {"select", "insert"} }

\* cur.description after execute: None when the statement has no result set.
Description(stmt) ==
    IF stmt \in {"select", "insert_returning"} THEN <<"columns">> ELSE None

\* The table as the transaction sees it after the statement.
Executed(stmt, t) ==
    IF stmt \in {"insert", "insert_returning"}
    THEN [t EXCEPT !.rows = Append(@, 1)]
    ELSE t

\* cur.rowcount after the statement.
Rowcount(stmt, t) == IF stmt \in {"insert", "insert_returning"} THEN 1 ELSE Len(t.rows)

\* psycopg2.connect(...) of a script or of _connect(): a connection, or an
\* error outside every try; a script then ends with code 1.
DbConnect ==
    /\ db.pc = "connect"
    /\ \E ok \in BOOLEAN :
          db' = IF ok
                THEN [db EXCEPT !.connects = @ + 1, !.conn = "open", !.pc = "connected"]
                ELSE [db EXCEPT !.connects = @ + 1, !.raised = "OperationalError",
                                !.exit = IF db.script = "execute_write" THEN @ ELSE 1,
                                !.pc = "done"]
    /\ UNCHANGED <<vpath, vres, vresolved, envFile, tmp, loop, req, writes, tvars>>

\* finally: conn.close().  What was not committed is gone; a script ends
\* with code 1 when an error or sys.exit(1) is on its way out.
DbClose ==
    /\ db.pc = "finally"
    /\ db' = [db EXCEPT
                 !.calls = Append(@, [op |-> "close", arg |-> 0]),
                 !.conn = "closed", !.txn = db.table, !.pc = "done",
                 !.exit = IF db.script = "execute_write" THEN @
                          ELSE IF db.raised = "none" THEN 0 ELSE 1]
    /\ UNCHANGED <<vpath, vres, vresolved, envFile, tmp, loop, req, writes, tvars>>

\* run_query.py, main: the argument check.
RunQueryStart ==
    /\ db.script = "run_query" /\ db.pc = "start"
    /\ db' = IF db.argc < 2
             THEN [db EXCEPT !.out = "Usage", !.exit = 1, !.pc = "done"]
             ELSE [db EXCEPT !.pc = "connect"]
    /\ UNCHANGED <<vpath, vres, vresolved, envFile, tmp, loop, req, writes, tvars>>

\* cur.execute(sql) and the test of cur.description; an error goes to
\* except psycopg2.Error: the message and sys.exit(1).
RunQueryExecute ==
    /\ db.script = "run_query" /\ db.pc = "connected"
    /\ \E ok \in BOOLEAN :
          db' = IF ok
                THEN [db EXCEPT
                         !.calls = Append(@, [op |-> "execute", arg |-> 0]),
                         !.txn = Executed(db.stmt, db.txn),
                         !.rowcount = Rowcount(db.stmt, db.txn),
                         !.executed = TRUE,
                         !.pc = IF Description(db.stmt) # None THEN "rows" ELSE "commit"]
                ELSE [db EXCEPT
                         !.calls = Append(@, [op |-> "execute", arg |-> 0]),
                         !.out = "SQL Error", !.raised = "psycopg2.Error",
                         !.pc = "finally"]
    /\ UNCHANGED <<vpath, vres, vresolved, envFile, tmp, loop, req, writes, tvars>>

\* The branch of a result set with a commit in the place of the rollback.
RunQueryRowsCommits ==
    /\ db.script = "run_query" /\ db.pc = "rows"
    /\ \E ok \in BOOLEAN :
          db' = IF ok
                THEN [db EXCEPT
                         !.calls = @ \o <<[op |-> "fetchmany", arg |-> 0],
                                          [op |-> "commit", arg |-> 0]>>,
                         !.table = db.txn, !.out = "rows", !.pc = "finally"]
                ELSE [db EXCEPT
                         !.calls = Append(@, [op |-> "fetchmany", arg |-> 0]),
                         !.out = "SQL Error", !.raised = "psycopg2.Error",
                         !.pc = "finally"]
    /\ UNCHANGED <<vpath, vres, vresolved, envFile, tmp, loop, req, writes, tvars>>

\* The branch of a result set: fetchmany(500), conn.rollback(), the table.
RunQueryRows ==
    /\ db.script = "run_query" /\ db.pc = "rows"
    /\ \E ok \in BOOLEAN :
          db' = IF ok
                THEN [db EXCEPT
                         !.calls = @ \o <<[op |-> "fetchmany", arg |-> 0],
                                          [op |-> "rollback", arg |-> 0]>>,
                         !.txn = db.table, !.out = "rows", !.pc = "finally"]
                ELSE [db EXCEPT
                         !.calls = Append(@, [op |-> "fetchmany", arg |-> 0]),
                         !.out = "SQL Error", !.raised = "psycopg2.Error",
                         !.pc = "finally"]
    /\ UNCHANGED <<vpath, vres, vresolved, envFile, tmp, loop, req, writes, tvars>>

\* The branch without a result set: conn.commit() and the row count.
RunQueryCommit ==
    /\ db.script = "run_query" /\ db.pc = "commit"
    /\ \E ok \in BOOLEAN :
          db' = IF ok
                THEN [db EXCEPT
                         !.calls = Append(@, [op |-> "commit", arg |-> 0]),
                         !.table = db.txn, !.out = "OK. Rows affected",
                         !.count = db.rowcount, !.pc = "finally"]
                ELSE [db EXCEPT
                         !.calls = Append(@, [op |-> "commit", arg |-> 0]),
                         !.out = "SQL Error", !.raised = "psycopg2.Error",
                         !.pc = "finally"]
    /\ UNCHANGED <<vpath, vres, vresolved, envFile, tmp, loop, req, writes, tvars>>

\* import_csv.py, main: the checks of the arguments and of the file.
ImportCsvStart ==
    /\ db.script = "import_csv" /\ db.pc = "start"
    /\ db' = IF db.argc < 3
             THEN [db EXCEPT !.out = "Usage", !.exit = 1, !.pc = "done"]
             ELSE IF db.file = "missing"
             THEN [db EXCEPT !.out = "File not found", !.exit = 1, !.pc = "done"]
             ELSE IF db.file = "noheader"
             THEN [db EXCEPT !.out = "CSV has no header row", !.exit = 1, !.pc = "done"]
             ELSE IF db.rows = <<>>
             THEN [db EXCEPT !.out = "CSV has no data rows", !.exit = 0, !.pc = "done"]
             ELSE [db EXCEPT !.pc = "connect"]
    /\ UNCHANGED <<vpath, vres, vresolved, envFile, tmp, loop, req, writes, tvars>>

\* The query on information_schema.tables and the test of its count.  No
\* except clause catches an error of this script: it leaves through finally.
ImportCsvCheck ==
    /\ db.script = "import_csv" /\ db.pc = "connected"
    /\ \E ok \in BOOLEAN :
          db' = IF ok
                THEN [db EXCEPT
                         !.calls = Append(@, [op |-> "check", arg |-> 0]),
                         !.exists = db.txn.exists, !.i = 1,
                         !.pc = IF db.txn.exists THEN "insert" ELSE "create"]
                ELSE [db EXCEPT
                         !.calls = Append(@, [op |-> "check", arg |-> 0]),
                         !.raised = "psycopg2.Error", !.pc = "finally"]
    /\ UNCHANGED <<vpath, vres, vresolved, envFile, tmp, loop, req, writes, tvars>>

\* CREATE TABLE with a TEXT column per header name.
ImportCsvCreate ==
    /\ db.script = "import_csv" /\ db.pc = "create"
    /\ \E ok \in BOOLEAN :
          db' = IF ok
                THEN [db EXCEPT
                         !.calls = Append(@, [op |-> "create", arg |-> 0]),
                         !.txn = [exists |-> TRUE, rows |-> <<>>],
                         !.out = "Created table", !.pc = "insert"]
                ELSE [db EXCEPT
                         !.calls = Append(@, [op |-> "create", arg |-> 0]),
                         !.raised = "psycopg2.Error", !.pc = "finally"]
    /\ UNCHANGED <<vpath, vres, vresolved, envFile, tmp, loop, req, writes, tvars>>

\* The insert of a row followed by a commit of its own.
ImportCsvInsertCommits ==
    /\ db.script = "import_csv" /\ db.pc = "insert" /\ db.i <= Len(db.rows)
    /\ \E ok \in BOOLEAN :
          db' = IF ok
                THEN [db EXCEPT
                         !.calls = @ \o <<[op |-> "insert", arg |-> db.rows[db.i]],
                                          [op |-> "commit", arg |-> 0]>>,
                         !.txn.rows = Append(@, db.rows[db.i]),
                         !.table = [db.txn EXCEPT !.rows = Append(@, db.rows[db.i])],
                         !.i = @ + 1]
                ELSE [db EXCEPT
                         !.calls = Append(@, [op |-> "insert", arg |-> db.rows[db.i]]),
                         !.raised = "psycopg2.Error", !.pc = "finally"]
    /\ UNCHANGED <<vpath, vres, vresolved, envFile, tmp, loop, req, writes, tvars>>

\* The loop over rows: one INSERT for the next row.
ImportCsvInsert ==
    /\ db.script = "import_csv" /\ db.pc = "insert" /\ db.i <= Len(db.rows)
    /\ \E ok \in BOOLEAN :
          db' = IF ok
                THEN [db EXCEPT
                         !.calls = Append(@, [op |-> "insert", arg |-> db.rows[db.i]]),
                         !.txn.rows = Append(@, db.rows[db.i]),
                         !.i = @ + 1]
                ELSE [db EXCEPT
                         !.calls = Append(@, [op |-> "insert", arg |-> db.rows[db.i]]),
                         !.raised = "psycopg2.Error", !.pc = "finally"]
    /\ UNCHANGED <<vpath, vres, vresolved, envFile, tmp, loop, req, writes, tvars>>

\* After the loop: conn.commit() and the count of imported rows.
ImportCsvCommit ==
    /\ db.script = "import_csv" /\ db.pc = "insert" /\ db.i > Len(db.rows)
    /\ \E ok \in BOOLEAN :
          db' = IF ok
                THEN [db EXCEPT
                         !.calls = Append(@, [op |-> "commit", arg |-> 0]),
                         !.table = db.txn, !.out = "Imported",
                         !.count = Len(db.rows), !.pc = "finally"]
                ELSE [db EXCEPT
                         !.calls = Append(@, [op |-> "commit", arg |-> 0]),
                         !.raised = "psycopg2.Error", !.pc = "finally"]
    /\ UNCHANGED <<vpath, vres, vresolved, envFile, tmp, loop, req, writes, tvars>>

\* lib/db.py, execute_write: cur.execute(sql, params) and cur.rowcount.
ExecuteWriteExecute ==
    /\ db.script = "execute_write" /\ db.pc = "connected"
    /\ \E ok \in BOOLEAN :
          db' = IF ok
                THEN [db EXCEPT
                         !.calls = Append(@, [op |-> "execute", arg |-> 0]),
                         !.txn = Executed(db.stmt, db.txn),
                         !.rowcount = Rowcount(db.stmt, db.txn),
                         !.executed = TRUE, !.pc = "commit"]
                ELSE [db EXCEPT
                         !.calls = Append(@, [op |-> "execute", arg |-> 0]),
                         !.raised = "psycopg2.Error", !.pc = "except"]
    /\ UNCHANGED <<vpath, vres, vresolved, envFile, tmp, loop, req, writes, tvars>>

\* conn.commit() and return affected.
ExecuteWriteCommit ==
    /\ db.script = "execute_write" /\ db.pc = "commit"
    /\ \E ok \in BOOLEAN :
          db' = IF ok
                THEN [db EXCEPT
                         !.calls = Append(@, [op |-> "commit", arg |-> 0]),
                         !.table = db.txn, !.out = "returned",
                         !.count = db.rowcount, !.pc = "finally"]
                ELSE [db EXCEPT
                         !.calls = Append(@, [op |-> "commit", arg |-> 0]),
                         !.raised = "psycopg2.Error", !.pc = "except"]
    /\ UNCHANGED <<vpath, vres, vresolved, envFile, tmp, loop, req, writes, tvars>>

\* except Exception without the rollback: raise only.
ExecuteWriteExceptNoRollback ==
    /\ db.script = "execute_write" /\ db.pc = "except"
    /\ db' = [db EXCEPT !.pc = "finally"]
    /\ UNCHANGED <<vpath, vres, vresolved, envFile, tmp, loop, req, writes, tvars>>

\* except Exception: conn.rollback() and raise.
ExecuteWriteExcept ==
    /\ db.script = "execute_write" /\ db.pc = "except"
    /\ db' = [db EXCEPT
                 !.calls = Append(@, [op |-> "rollback", arg |-> 0]),
                 !.txn = db.table, !.pc = "finally"]
    /\ UNCHANGED <<vpath, vres, vresolved, envFile, tmp, loop, req, writes, tvars>>

InitDb ==
    /\ db \in DbRuns
    /\ vpath = <<>> /\ vres = "none" /\ vresolved = <<>>
    /\ InitRest
    /\ InitNoTree

NextDb ==
    \/ DbConnect
    \/ DbClose
    \/ RunQueryStart
    \/ RunQueryExecute
    \/ RunQueryRows
    \/ RunQueryCommit
    \/ ImportCsvStart
    \/ ImportCsvCheck
    \/ ImportCsvCreate
    \/ ImportCsvInsert
    \/ ImportCsvCommit
    \/ ExecuteWriteExecute
    \/ ExecuteWriteCommit
    \/ ExecuteWriteExcept

SpecDb == InitDb /\ [][NextDb]_vars

(***************************************************************************)
(* C1 as stated: validation succeeds iff the path, once normalized (its    *)
(* "." and ".." segments resolved), has the allowed root as a prefix; a    *)
(* path that leaves the root through ".." is rejected.                     *)
(***************************************************************************)
\* The normalization the claim means: "." dropped, ".." cancels the
\* segment before it (and is dropped at the root).
RECURSIVE ResolveDots(_, _)
ResolveDots(parts, acc) ==
    IF parts = <<>> THEN acc
    ELSE IF Head(parts) = <<".", ".">>
         THEN ResolveDots(Tail(parts),
                          IF acc = <<>> THEN <<>> ELSE SubSeq(acc, 1, Len(acc) - 1))
         ELSE ResolveDots(Tail(parts), Append(acc, Head(parts)))

NormalizedPath(s) ==
    (IF LeadingSlashes(s) > 0 THEN <<"/">> ELSE <<>>)
        \o Join(ResolveDots(PosixParts(s), <<>>), <<"/">>)

C1_OutsideRootRejected ==
    (vres # "none" /\ ~IsPrefix(ALLOWED_ROOT, NormalizedPath(vpath)))
        => vres = "rejected"

(***************************************************************************)
(* Properties of the executors, checked under SpecExec and SpecTrunc.      *)
(***************************************************************************)
\* The script request r uploaded is still in the container's /tmp.
ScriptPresent(r) ==
    req[r].uploaded /\ req[r].script \in DOMAIN tmp /\ tmp[req[r].script] = r

\* An execution request that ended with the result of exec_run.
GotResult(r) == req[r].pc = "done" /\ req[r].raised = "none" /\ req[r].resp # NoResp

\* C2 as stated: once a code-execution request has returned, whatever the
\* interpreter's exit status, and also when the environment file is missing
\* or exec_run fails after the upload, the script it uploaded is gone.
C2_ScriptGoneAfterReturn ==
    \A r \in Reqs : (req[r].op = "py" /\ req[r].pc = "done") => ~ScriptPresent(r)

\* C3 as stated: a code execution whose environment file does not exist
\* (and whose cd succeeds) still runs the interpreter and returns its exit code.
C3_MissingEnvStillRunsInterpreter ==
    \A r \in Reqs :
        (req[r].op = "py" /\ GotResult(r) /\ req[r].sourced = "missing" /\ req[r].cdOk)
            => (req[r].ran /\ req[r].resp.exit_code = req[r].payloadExit)

\* C4: a command execution whose environment file does not exist (and whose
\* cd succeeds) still runs the caller's command, and the result carries the
\* command's exit code.
C4_MissingEnvStillRunsCommand ==
    \A r \in Reqs :
        (req[r].op = "cmd" /\ GotResult(r) /\ req[r].sourced = "missing" /\ req[r].cdOk)
            => (req[r].ran /\ req[r].resp.exit_code = req[r].payloadExit
                /\ req[r].resp.success = (req[r].payloadExit = 0))

\* C4 witness: a command ran and was killed by a signal while no environment
\* file existed.
C4_Witness ==
    \E r \in Reqs :
        /\ req[r].op = "cmd" /\ GotResult(r) /\ req[r].sourced = "missing"
        /\ req[r].ran /\ req[r].resp.exit_code = 137 /\ ~req[r].resp.success

\* C5 as stated: after set(name, value) has returned, the next command
\* execution, with no other write of the file in between, runs with name
\* set to value in its environment.
C5_SetVisibleToNextCommand ==
    \A s, c \in Reqs :
        (/\ req[s].op = "set" /\ req[s].pc = "done"
         /\ req[c].op = "cmd" /\ req[c].pc \in {"exec", "done"} /\ req[c].ran
         /\ req[c].writesSeen >= 1 /\ writes[req[c].writesSeen] = s)
        => (/\ req[s].name \in DOMAIN req[c].ranEnv
            /\ req[c].ranEnv[req[s].name] = req[s].kv[req[s].name])

\* C10 as stated: any two code-execution calls use distinct script names.
C10_DistinctScriptNames ==
    \A r1, r2 \in Reqs :
        (r1 # r2 /\ req[r1].uploaded /\ req[r2].uploaded)
            => req[r1].script # req[r2].script

\* What the returned stream must be for a captured (decoded) stream.
CutAtLimit(captured, returned) ==
    IF Len(captured) > MAX_OUTPUT_LENGTH
    THEN /\ Len(returned) = MAX_OUTPUT_LENGTH + Len(TRUNC_MARKER)
         /\ SubSeq(returned, 1, MAX_OUTPUT_LENGTH) = SubSeq(captured, 1, MAX_OUTPUT_LENGTH)
         /\ SubSeq(returned, MAX_OUTPUT_LENGTH + 1, Len(returned)) = TRUNC_MARKER
    ELSE returned = captured

\* C6: for each of stdout and stderr independently, a captured stream longer
\* than 10,000 characters is returned as its first 10,000 characters followed
\* by the marker, and a stream of at most 10,000 characters is returned as is.
C6_StreamsCutAtLimit ==
    \A r \in Reqs :
        GotResult(r) =>
            /\ CutAtLimit(Decode(req[r].out), req[r].resp.stdout)
            /\ CutAtLimit(Decode(req[r].err), req[r].resp.stderr)

\* C6 witness: a code execution returned a cut stdout next to an stderr of
\* exactly 10,000 characters.
C6_Witness ==
    \E r \in Reqs :
        /\ req[r].op = "py" /\ GotResult(r)
        /\ Len(Decode(req[r].out)) = MAX_OUTPUT_LENGTH + 1
        /\ Len(Decode(req[r].err)) = MAX_OUTPUT_LENGTH
        /\ Len(req[r].resp.stdout) > Len(req[r].resp.stderr)

C8_AlwaysCompleteSnapshot ==
    writes # <<>> => envFile = EnvContent(req[writes[Len(writes)]].env)

\* The variables a mutation changes, and whether a dict shows the change.
Touched(r) == IF req[r].op = "del" THEN {req[r].name} ELSE DOMAIN req[r].kv

ChangeShows(r, env) ==
    IF req[r].op = "del" THEN req[r].name \notin DOMAIN env
    ELSE \A k \in DOMAIN req[r].kv : k \in DOMAIN env /\ env[k] = req[r].kv[k]

\* C9 as stated, the part a run can refute: the mutations are
\* unsynchronized, so while one is between its read and its write another
\* one, of a different variable, that is waiting can start and read the file.
C9_Unsynchronized ==
    \A r1, r2 \in Reqs :
        (/\ req[r1].pc \in {"read", "opened"}
         /\ req[r2].pc = "pending" /\ req[r2].op \in {"set", "del", "bulk"}
         /\ Touched(r1) \cap Touched(r2) = {})
        => ENABLED EnvRead(r2)

\* C9 amended: the handlers never interleave, so no update is lost: when the
\* last two writers changed different variables and no rewrite is under way,
\* the file shows the change of both.
C9_NoLostUpdate ==
    \A r1, r2 \in Reqs :
        (/\ Len(writes) >= 2
         /\ writes[Len(writes) - 1] = r1 /\ writes[Len(writes)] = r2
         /\ \A q \in Reqs : req[q].pc # "opened"
         /\ Touched(r1) \cap Touched(r2) = {})
        => (ChangeShows(r1, ReadEnv(envFile)) /\ ChangeShows(r2, ReadEnv(envFile)))

\* C9 witness: two sets of different variables have both written and returned,
\* one after the other, and the file holds both variables.
C9_Witness ==
    \E r1, r2 \in Reqs :
        /\ writes = <<r1, r2>>
        /\ req[r1].op = "set" /\ req[r2].op = "set" /\ req[r1].name # req[r2].name
        /\ req[r1].pc = "done" /\ req[r2].pc = "done"
        /\ DOMAIN ReadEnv(envFile) = {req[r1].name, req[r2].name}

(***************************************************************************)
(* Properties of the file tree, checked under SpecTree.                    *)
(***************************************************************************)
\* The reorderings of the lines ls.
LinePermutations(ls) ==
    { [i \in 1..Len(ls) |-> ls[p[i]]] : p \in Permutations(1..Len(ls)) }

\* Two lists of nested nodes are equal, child sequences in the same order.
RECURSIVE SameTrees(_, _)
SameTrees(s, t) ==
    /\ Len(s) = Len(t)
    /\ \A i \in 1..Len(s) :
          /\ s[i].name = t[i].name /\ s[i].path = t[i].path /\ s[i].type = t[i].type
          /\ s[i].type = "directory" => SameTrees(s[i].children, t[i].children)

\* A list of nested nodes without the order of its sequences.
RECURSIVE TreeShape(_)
TreeShape(t) ==
    { [name |-> t[i].name, path |-> t[i].path, type |-> t[i].type,
       children |-> IF t[i].type = "directory" THEN TreeShape(t[i].children) ELSE {}]
      : i \in 1..Len(t) }

\* Position of the path p in the sequence ps.
PosIn(ps, p) == CHOOSE i \in 1..Len(ps) : ps[i] = p

\* C11 as stated: for every listing and every permutation of its lines,
\* _parse_tree returns the identical tree for the same root: the same nodes
\* with the same child sequences.
C11_SameTreeForEveryOrder ==
    tres.raised = "none" =>
        \A ps \in LinePermutations(SplitLines(traw)) :
            LET other == ParseTree(RawOutput(ps), troot) IN
            other.raised = "none" /\ SameTrees(other.tree, tres.tree)

\* C11 amended: for every listing of distinct paths and every permutation of
\* its lines, _parse_tree returns the same nodes, each with the same set of
\* children, for the same root; every child sequence, and the result, lists
\* its nodes in the order of their lines in the listing.
C11_SameNodesAnyOrder ==
    tres.raised = "none" =>
        /\ \A ps \in LinePermutations(SplitLines(traw)) :
              LET other == ParseTree(RawOutput(ps), troot) IN
              other.raised = "none" /\ TreeShape(other.tree) = TreeShape(tres.tree)
        /\ \A i, j \in 1..Len(tres.tree) :
              i < j => PosIn(tres.nodes.keys, tres.tree[i].path)
                         < PosIn(tres.nodes.keys, tres.tree[j].path)
        /\ \A d \in DOMAIN tres.children :
              \A i, j \in 1..Len(tres.children[d]) :
                  i < j => PosIn(tres.nodes.keys, tres.children[d][i])
                             < PosIn(tres.nodes.keys, tres.children[d][j])
        /\ tres.nodes.keys = TreeNodes(SplitLines(traw), NoNodes).keys

\* C11 witness: the tree of a listed root was built, the root has two
\* children, and another order of the lines gives them in the other order.
C11_Witness ==
    /\ tres.raised = "none"
    /\ troot \in DOMAIN tres.nodes.node
    /\ Len(tres.tree) = 2
    /\ \E ps \in LinePermutations(SplitLines(traw)) :
          ~SameTrees(ParseTree(RawOutput(ps), troot).tree, tres.tree)

\* The path p without its final segment, as the claims mean it.
RECURSIVE WithoutLastSegment(_)
WithoutLastSegment(p) ==
    IF Len(p) <= 1 THEN p
    ELSE IF p[Len(p)] = "/"
         THEN (IF Len(p) = 2 THEN SubSeq(p, 1, 1) ELSE SubSeq(p, 1, Len(p) - 1))
         ELSE WithoutLastSegment(SubSeq(p, 1, Len(p) - 1))

\* Number of times p occurs in the sequence ps.
Occurrences(ps, p) == Cardinality({ i \in 1..Len(ps) : ps[i] = p })

\* C12: the tree mirrors directory containment: a listed entry whose parent
\* path is listed and is not its own path is exactly once in that parent's
\* child sequence and in no other; no entry is its own child; when the root
\* is listed the result is the root's child sequence (empty for a file).
C12_TreeMirrorsContainment ==
    tres.raised = "none" =>
        LET keys == DOMAIN tres.nodes.node
            kids == tres.children
        IN /\ \A p \in keys :
                LET q == WithoutLastSegment(p) IN
                (q \in keys /\ q # p) =>
                    /\ q \in DOMAIN kids
                    /\ Occurrences(kids[q], p) = 1
                    /\ \A d \in DOMAIN kids \ {q} : Occurrences(kids[d], p) = 0
           /\ \A d \in DOMAIN kids : Occurrences(kids[d], d) = 0
           /\ \A d \in DOMAIN kids : \A i \in 1..Len(kids[d]) :
                  WithoutLastSegment(kids[d][i]) = d
           /\ troot \in keys =>
                  SameTrees(tres.tree,
                            IF troot \in DOMAIN kids
                            THEN TreeList(kids[troot], tres.nodes, kids)
                            ELSE <<>>)

\* C12 witness: the filesystem root, a directory in it and an entry of that
\* directory are listed, and the tree of the root was built.
C12_Witness ==
    /\ tres.raised = "none"
    /\ troot = <<"/">>
    /\ Len(tres.tree) = 1
    /\ tres.tree[1].type = "directory"
    /\ Len(tres.tree[1].children) = 1

\* C13 as stated: when the root is not an entry of the listing, the result
\* is the top-level nodes only, those whose parent path is not listed; a
\* node nested under a listed directory is not returned at the top level.
C13_FallbackTopLevelOnly ==
    (tres.raised = "none" /\ troot \notin DOMAIN tres.nodes.node) =>
        \A i \in 1..Len(tres.tree) :
            LET p == tres.tree[i].path IN
            WithoutLastSegment(p) = p \/ WithoutLastSegment(p) \notin DOMAIN tres.nodes.node

(***************************************************************************)
(* Properties of the file, log and EnvStore endpoints.                     *)
(***************************************************************************)
\* A download request that got an archive from get_archive and has ended.
Fetched(r) ==
    /\ req[r].op = "download" /\ req[r].pc = "done"
    /\ req[r].calls = <<"containers.get", "get_archive">>
    /\ req[r].archive # NoResp

\* The request ended with the bytes data as its body.
ReturnsBytes(r, data) ==
    /\ req[r].raised = "none"
    /\ req[r].resp # NoResp
    /\ req[r].resp.body = data

\* The request ended with an HTTP error and no body of file content.
FailsWith(r, status) == req[r].raised = status /\ req[r].resp = NoResp

\* C14 as stated: an empty archive fails with NotFound (404), a first entry
\* that is a directory with InvalidRequest (400), a malformed archive with
\* TransportError (500); otherwise the raw bytes of the first entry are
\* returned.
C14_FetchFirstEntryBytes ==
    \A r \in Reqs :
        Fetched(r) =>
            LET a == req[r].archive IN
            IF ~a.ok THEN FailsWith(r, "500")
            ELSE IF a.members = <<>> THEN FailsWith(r, "404")
            ELSE IF a.members[1].type = "dir" THEN FailsWith(r, "400")
            ELSE ReturnsBytes(r, a.members[1].data)

\* C14 amended: as stated for an empty archive, a directory and a malformed
\* archive; a first entry that is a regular file is returned byte for byte;
\* a first entry that is a link gives the bytes of the regular file it
\* names in the archive and an unhandled KeyError when there is none; any
\* other first entry (a FIFO, a device) fails with 500. A failure carries
\* no file content.
C14_FetchRegularFileBytes ==
    \A r \in Reqs :
        Fetched(r) =>
            LET a == req[r].archive IN
            IF ~a.ok THEN FailsWith(r, "500")
            ELSE IF a.members = <<>> THEN FailsWith(r, "404")
            ELSE IF a.members[1].type = "dir" THEN FailsWith(r, "400")
            ELSE IF a.members[1].type = "file" THEN ReturnsBytes(r, a.members[1].data)
            ELSE IF a.members[1].type = "link"
                 THEN \/ /\ FailsWith(r, "unhandled")
                         /\ \A i \in 1..Len(a.members) :
                               a.members[i].name # a.members[1].linkname
                      \/ \E i \in 1..Len(a.members) :
                            /\ a.members[i].name = a.members[1].linkname
                            /\ a.members[i].type = "file"
                            /\ ReturnsBytes(r, a.members[i].data)
            ELSE FailsWith(r, "500")

\* C14 witness: an archive whose first entry is a FIFO was fetched and the
\* request failed with 500.
C14_Witness ==
    \E r \in Reqs :
        /\ Fetched(r)
        /\ req[r].archive.ok /\ req[r].archive.members # <<>>
        /\ req[r].archive.members[1].type = "fifo"
        /\ FailsWith(r, "500")

\* C15: delete(name) of a name that is not a variable of the file fails
\* with NotFound (404) and writes nothing: the step that handles it leaves
\* the environment file and the list of writers as they were.
C15_DeleteMissingNoWrite ==
    [][\A r \in Reqs :
          (/\ req[r].op = "del" /\ req[r].pc = "pending"
           /\ req[r].name \notin DOMAIN ReadEnv(envFile)
           /\ req'[r] # req[r])
          => (/\ req'[r].pc = "done" /\ req'[r].raised = "404"
              /\ req'[r].resp = NoResp
              /\ envFile' = envFile /\ writes' = writes)]_vars

\* C15 witness: a delete of a missing name has failed with 404 while the
\* file holds another variable, and that delete is not among the writers.
C15_Witness ==
    \E r \in Reqs :
        /\ req[r].op = "del" /\ req[r].pc = "done" /\ req[r].raised = "404"
        /\ envFile # NoFile /\ DOMAIN ReadEnv(envFile) # {}
        /\ req[r].name \notin DOMAIN ReadEnv(envFile)
        /\ \A i \in 1..Len(writes) : writes[i] # r

\* The exec_run call of the execution request r has returned.
ExecReturned(r) ==
    req[r].op \in {"cmd", "py"} /\ req[r].pc = "done" /\ req[r].sourced # "no"

\* C16 as stated: whenever exec_run returns, the executor returns a result
\* that carries the exit code, stdout and stderr, marked successful iff the
\* exit code is 0; a non-zero exit is never answered as an error.
C16_ExitCodeIsAResult ==
    \A r \in Reqs :
        ExecReturned(r) =>
            /\ req[r].raised = "none"
            /\ req[r].resp.exit_code = req[r].shellExit
            /\ req[r].resp.success = (req[r].shellExit = 0)
            /\ req[r].resp.stdout = Truncate(Decode(req[r].out))
            /\ req[r].resp.stderr = Truncate(Decode(req[r].err))

\* The request was answered with a structured failure response.
StructuredFailure(r) ==
    /\ req[r].resp # NoResp
    /\ ~req[r].resp.success
    /\ req[r].resp.message # None

\* C17 as stated: every error raised by any operation is caught at the
\* operation boundary and answered with a structured failure response
\* (success false, a message); none leaves the request handler.
C17_EveryErrorStructured ==
    \A r \in Reqs :
        (req[r].pc = "done" /\ req[r].raised # "none") => StructuredFailure(r)

\* C17 amended: run command, run code and log retrieval catch every error
\* and answer with a structured failure response; the file tree, the
\* download and the EnvStore operations let their errors leave the handler
\* as HTTP errors (400, 404, 500) or unhandled exceptions, and return no
\* response object with a success flag.
C17_ErrorsCaughtByExecAndLogsOnly ==
    \A r \in Reqs :
        (req[r].pc = "done" /\ req[r].raised # "none") =>
            /\ req[r].op \in {"cmd", "py", "logs"} => StructuredFailure(r)
            /\ req[r].op \in {"tree", "download", "set", "del", "bulk", "get"}
                  => req[r].resp = NoResp

\* C17 witness: a command failed because the container was not found and
\* was answered with a structured failure response.
C17_Witness ==
    \E r \in Reqs :
        /\ req[r].op = "cmd" /\ req[r].pc = "done" /\ req[r].raised = "404"
        /\ StructuredFailure(r)

\* C18 as stated: while one execution is blocked in exec_run, the gateway
\* can start another request: a waiting command can be started, so that two
\* executions are in the container at the same time.
C18_StartsWhileOtherBlocked ==
    \A r1, r2 \in Reqs :
        (/\ req[r1].pc = "exec"
         /\ req[r2].pc = "pending" /\ req[r2].op = "cmd")
        => ENABLED CmdStart(r2, TRUE, TRUE, TRUE, 0, 1)

\* A log request that got the text of container.logs and returned it.
LogsRetrieved(r) ==
    /\ req[r].op = "logs" /\ req[r].pc = "done" /\ req[r].raised = "none"

\* C19: the logs returned are the last 5,000 characters of the text: a
\* suffix of it of length min(length, 5000); pruned is true iff the text
\* was longer than 5,000 characters; character_count is the length of the
\* returned text.
C19_LogsPrunedToLastChars ==
    \A r \in Reqs :
        LogsRetrieved(r) =>
            LET text == req[r].out
                data == req[r].resp.data
                n == IF Len(text) < 5000 THEN Len(text) ELSE 5000
            IN /\ req[r].resp.success
               /\ Len(data.logs) = n
               /\ data.logs = SubSeq(text, Len(text) - n + 1, Len(text))
               /\ data.pruned = (Len(text) > 5000)
               /\ data.character_count = Len(data.logs)

\* C19 witness: a text of more than 5,000 characters was pruned.
C19_Witness ==
    \E r \in Reqs :
        /\ LogsRetrieved(r)
        /\ Len(req[r].out) > 5000
        /\ req[r].resp.data.pruned
        /\ req[r].resp.data.character_count = 5000

\* C20: a tree or download request whose path fails validation (the string
\* of its PurePosixPath does not start with the allowed root) makes no
\* container-engine call, and ends with the 400 of _validate_path.
C20_NoEngineCallForRejectedPath ==
    \A r \in Reqs :
        (/\ req[r].op \in {"tree", "download"}
         /\ ~AcceptsResolved(PurePosixPathStr(req[r].path)))
        => /\ req[r].calls = <<>>
           /\ req[r].pc \in {"pending", "done"}
           /\ req[r].pc = "done" =>
                 (FailsWith(r, "400") /\ req[r].detail = "Path must be within")

\* C20 witness: a download of a path outside the root was rejected without
\* any call.
C20_Witness ==
    \E r \in Reqs :
        /\ req[r].op = "download" /\ req[r].pc = "done"
        /\ ~AcceptsResolved(PurePosixPathStr(req[r].path))
        /\ req[r].raised = "400" /\ req[r].calls = <<>>

(***************************************************************************)
(* The exit code and the runtime calls of an execution, under SpecExec.    *)
(***************************************************************************)
\* C21: when the interpreter was started (the environment file was sourced
\* and cd succeeded), the exit code of the result is the interpreter's own:
\* the shell saves it, removes the script and exits with the saved value.
C21_InterpreterExitCodeKept ==
    \A r \in Reqs :
        (req[r].op = "py" /\ GotResult(r) /\ req[r].cdOk /\ req[r].ran)
            => (/\ req[r].resp.exit_code = req[r].payloadExit
                /\ req[r].resp.success = (req[r].payloadExit = 0)
                /\ req[r].removes)

\* C21 witness: the interpreter was killed by a signal, the script was
\* removed, and the result carries 137.
C21_Witness ==
    \E r \in Reqs :
        /\ req[r].op = "py" /\ GotResult(r) /\ req[r].cdOk /\ req[r].ran
        /\ req[r].payloadExit = 137 /\ req[r].resp.exit_code = 137
        /\ req[r].removes /\ ~ScriptPresent(r)

\* Number of times call occurs in calls.
CallCount(calls, call) == Cardinality({ i \in 1..Len(calls) : calls[i] = call })

\* C22: no runtime call is repeated and the calls of a request come in a
\* fixed order: a command issues containers.get and then at most one
\* exec_run; a code execution issues containers.get, then at most one
\* put_archive, then at most one exec_run, and the exec_run only after the
\* upload succeeded; a request whose exec_run was reached issued every call
\* exactly once, and a request that failed issued nothing after the call
\* that failed.
C22_NoRetryFixedOrder ==
    \A r \in Reqs :
        /\ req[r].op = "cmd" =>
              /\ req[r].calls \in { <<>>, <<"containers.get">>,
                                    <<"containers.get", "exec_run">> }
              /\ req[r].sourced # "no"
                    => req[r].calls = <<"containers.get", "exec_run">>
        /\ req[r].op = "py" =>
              /\ req[r].calls \in { <<>>, <<"containers.get">>,
                                    <<"containers.get", "put_archive">>,
                                    <<"containers.get", "put_archive", "exec_run">> }
              /\ CallCount(req[r].calls, "exec_run") > 0 => req[r].uploaded
              /\ req[r].uploaded => CallCount(req[r].calls, "put_archive") = 1
              /\ req[r].sourced # "no"
                    => req[r].calls = <<"containers.get", "put_archive", "exec_run">>
        /\ (req[r].op \in {"cmd", "py"} /\ req[r].pc = "done" /\ req[r].sourced = "no")
              => (req[r].raised \in {"404", "500"} /\ Len(req[r].calls) \in 1..3)

\* C22 witness: a code execution whose exec_run failed after the upload
\* ended as a failure with the three calls made once each.
C22_Witness ==
    \E r \in Reqs :
        /\ req[r].op = "py" /\ req[r].pc = "done" /\ req[r].raised = "500"
        /\ req[r].uploaded
        /\ req[r].calls = <<"containers.get", "put_archive", "exec_run">>

(***************************************************************************)
(* Properties of the EnvStore with names and values of any text, checked   *)
(* under SpecEnvText.                                                      *)
(***************************************************************************)
\* No mutation is between its read and the end of its write.
Quiet == \A q \in Reqs : req[q].pc \notin {"read", "opened"}

\* The request that wrote the file last.
LastWriter == writes[Len(writes)]

\* C23 as stated: after any sequence of set, bulk_set and delete the file
\* has exactly one KEY=VALUE line per variable of the store, the keys in
\* ascending order without duplicates, and it ends with a line break.
C23_OneLinePerVariable ==
    (Quiet /\ writes # <<>>) =>
        LET NonBlank(l) == l # <<>>
            lines == SelectSeq(SplitLines(envFile), NonBlank)
            env == req[LastWriter].env
        IN /\ envFile # <<>> /\ envFile[Len(envFile)] = "\n"
           /\ Len(lines) = Cardinality(DOMAIN env)
           /\ \A i \in 1..Len(lines) : Contains(lines[i], "=")
           /\ \A i, j \in 1..Len(lines) :
                 i < j => StrLess(PartitionKey(lines[i]), PartitionKey(lines[j]))

\* C24 as stated: after set(name, value), for any name and any value, a
\* read returns the mapping read before with exactly name mapped to value.
C24_SetReadsBack ==
    (Quiet /\ writes # <<>> /\ req[LastWriter].op = "set") =>
        LET r == LastWriter IN
        ReadEnv(envFile) = DictSet(req[r].before, req[r].name, req[r].kv[req[r].name])

\* C25: the write of a successful delete(name) leaves a file that reads as
\* the mapping read before without name: name is gone and every other
\* variable has the value it had.
C25_DeleteRemovesExactlyName ==
    [][\A r \in Reqs :
          (req[r].op = "del" /\ req[r].pc = "opened" /\ req'[r].pc = "done")
          => (/\ req[r].name \in DOMAIN req[r].before
              /\ DOMAIN ReadEnv(envFile') = DOMAIN req[r].before \ {req[r].name}
              /\ \A k \in DOMAIN ReadEnv(envFile') :
                    ReadEnv(envFile')[k] = req[r].before[k]
              /\ req'[r].raised = "none")]_vars

\* C25 witness: a delete has removed one of two variables; the other one,
\* whose value holds an "=", is still in the file with that value.
C25_Witness ==
    \E r \in Reqs :
        /\ req[r].op = "del" /\ req[r].pc = "done" /\ req[r].raised = "none"
        /\ Quiet /\ writes # <<>> /\ LastWriter = r
        /\ req[r].name = <<"B">>
        /\ DOMAIN ReadEnv(envFile) = { <<"A">> }
        /\ ReadEnv(envFile)[<<"A">>] = <<"a", "=", "b">>

\* C26: while the file does not exist a read returns the empty mapping,
\* raises nothing and creates nothing; a set or bulk_set that found no file
\* (or no directory) creates it, and after its write the file holds the
\* variables of that request and nothing else.
C26_MissingFileReadAndCreate ==
    [][\A r \in Reqs :
          /\ (/\ req[r].op = "get" /\ req[r].pc = "pending" /\ FileMissing(envFile)
              /\ req'[r] # req[r])
             => (/\ req'[r].pc = "done" /\ req'[r].raised = "none"
                 /\ req'[r].resp = EnvResponse(EmptyEnv)
                 /\ envFile' = envFile)
          /\ (/\ req[r].op \in {"set", "bulk"} /\ req[r].pc = "read"
              /\ req[r].found # "file" /\ req'[r] # req[r])
             => (req'[r].pc = "opened" /\ ~FileMissing(envFile'))
          /\ (/\ req[r].op \in {"set", "bulk"} /\ req[r].pc = "opened"
              /\ req[r].found # "file" /\ req'[r].pc = "done")
             => (/\ envFile' = EnvContent(req[r].kv)
                 /\ req'[r].raised = "none"
                 /\ req'[r].resp = EnvResponse(req[r].kv))]_vars

\* C26 witness: a bulk_set that found neither file nor directory has
\* written its two variables, after a read that returned the empty mapping.
C26_Witness ==
    \E r, g \in Reqs :
        /\ req[g].op = "get" /\ req[g].pc = "done" /\ req[g].resp = EnvResponse(EmptyEnv)
        /\ req[r].op = "bulk" /\ req[r].pc = "done" /\ req[r].found = NoDir
        /\ envFile = EnvContent(req[r].kv)
        /\ Cardinality(DOMAIN ReadEnv(envFile)) = 2

(***************************************************************************)
(* Property of the tree builder on any listing, checked under SpecTreeAny. *)
(***************************************************************************)
\* C27 as stated: the build completes without raising for every listing,
\* also when the parent path of an entry is listed as a file and when lines
\* are repeated or malformed.
C27_BuildNeverRaises == tres # NoTree => tres.raised = "none"

(***************************************************************************)
(* Properties of the database scripts, checked under SpecDb.               *)
(***************************************************************************)
\* How many calls of op the run has made on its cursor and connection.
DbCount(op) == Cardinality({ k \in 1..Len(db.calls) : db.calls[k].op = op })

\* The ops of the calls, in order.
DbOps == [k \in 1..Len(db.calls) |-> db.calls[k].op]

\* A connection that was opened has been closed once, by the last call.
ClosedOnce ==
    /\ db.conn = "closed"
    /\ DbCount("close") = 1
    /\ db.calls[Len(db.calls)].op = "close"

\* C28: run_query calls commit if and only if execute returned without a
\* result set.  With a result set it rolls back and never commits, and the
\* table is as before even when the statement wrote; without one it commits
\* once and prints the affected row count.  On every path with a
\* connection, a database error included, the connection is closed once at
\* the end; without the SQL argument it exits with 1 and never connects.
C28_CommitIffNoResultSet ==
    db.script = "run_query" =>
        /\ DbCount("commit") <= 1
        /\ Description(db.stmt) # None => (DbCount("commit") = 0 /\ db.table = db.table0)
        /\ db.pc = "done" =>
              /\ db.argc < 2 => (db.exit = 1 /\ db.connects = 0 /\ db.calls = <<>>)
              /\ DbCount("commit") = 1 <=> (db.executed /\ Description(db.stmt) = None)
              /\ db.conn # "none" => ClosedOnce
              /\ db.conn = "none" => (db.calls = <<>> /\ db.exit = 1)
              /\ db.exit = 0 =>
                    IF Description(db.stmt) # None
                    THEN /\ DbOps = <<"execute", "fetchmany", "rollback", "close">>
                         /\ db.out = "rows"
                    ELSE /\ DbOps = <<"execute", "commit", "close">>
                         /\ db.out = "OK. Rows affected"
                         /\ db.count = Rowcount(db.stmt, db.table0)
                         /\ db.table = Executed(db.stmt, db.table0)
              /\ db.exit = 1 => (db.table = db.table0 /\ db.count = -1)

\* C28 witness: a statement that writes a row and returns it has run to
\* the end: rolled back, not committed, connection closed, table as before.
C28_Witness ==
    /\ db.script = "run_query" /\ db.pc = "done" /\ db.exit = 0
    /\ db.stmt = "insert_returning" /\ db.executed
    /\ DbCount("rollback") = 1 /\ DbCount("commit") = 0
    /\ ClosedOnce /\ db.table = db.table0

\* The calls of a complete import: the existence check, CREATE TABLE when
\* the check reported no table, an insert per data row in file order, the
\* commit.
ImportOrder ==
    <<[op |-> "check", arg |-> 0]>>
        \o (IF db.exists THEN <<>> ELSE <<[op |-> "create", arg |-> 0]>>)
        \o [k \in 1..Len(db.rows) |-> [op |-> "insert", arg |-> db.rows[k]]]
        \o <<[op |-> "commit", arg |-> 0]>>

\* The calls before the close.
BeforeClose ==
    IF db.conn = "closed" THEN SubSeq(db.calls, 1, Len(db.calls) - 1) ELSE db.calls

\* What holds of every run of import_csv, with data rows or without: the
\* calls made are a beginning of the fixed order; a failed run has committed
\* nothing; without its arguments or its file the script exits with 1 and
\* never connects; a connection that was opened is closed.
ImportCsvAlways ==
    /\ IsPrefix(BeforeClose, ImportOrder)
    /\ DbCount("commit") <= 1
    /\ DbCount("create") = 1 => ~db.table0.exists
    /\ (DbCount("insert") > 0 /\ DbCount("create") = 0) => db.table0.exists
    /\ db.pc = "done" =>
          /\ (db.argc < 3 \/ db.file # "ok")
                => (db.exit = 1 /\ db.connects = 0 /\ db.calls = <<>>)
          /\ db.conn # "none" => ClosedOnce
          /\ db.exit # 0 => (db.table = db.table0 /\ db.count = -1)

\* A run of import_csv with its arguments and a file with a header row
\* that ended without an error.
ImportCsvSucceeded ==
    /\ db.script = "import_csv" /\ db.pc = "done"
    /\ db.argc >= 3 /\ db.file = "ok" /\ db.raised = "none"

\* The whole fixed order was followed and the count reported.
ImportCsvComplete ==
    /\ db.exit = 0
    /\ db.calls = ImportOrder \o <<[op |-> "close", arg |-> 0]>>
    /\ DbCount("commit") = 1
    /\ db.out = "Imported" /\ db.count = Len(db.rows)
    /\ db.table = [exists |-> TRUE, rows |-> db.table0.rows \o db.rows]

\* C29 as stated: every import follows the fixed order (existence check,
\* table creation iff the check reports the table absent, one insert per
\* data row in file order, exactly one commit after the last insert) and
\* reports the number of data rows; a failure commits nothing; a missing
\* file or missing arguments exit with 1 before any connection.
C29_FixedOrderOneCommit ==
    db.script = "import_csv" =>
        /\ ImportCsvAlways
        /\ ImportCsvSucceeded => ImportCsvComplete

\* C29, amended: the fixed order, the one commit and the reported count are
\* those of a file with at least one data row; for a file with a header and
\* no data row the script reports that, exits with 0 and opens no
\* connection: no check, no table, no commit.
C29_FixedOrderOneCommitWithRows ==
    db.script = "import_csv" =>
        /\ ImportCsvAlways
        /\ (ImportCsvSucceeded /\ db.rows # <<>>) => ImportCsvComplete
        /\ (ImportCsvSucceeded /\ db.rows = <<>>) =>
              /\ db.exit = 0 /\ db.connects = 0 /\ db.calls = <<>>
              /\ db.out = "CSV has no data rows" /\ db.count = -1
              /\ db.table = db.table0

\* C29 witness: two rows, not in sorted order, were imported into a table
\* that did not exist: check, create, the two inserts in file order, one
\* commit, close.
C29_Witness ==
    /\ ImportCsvSucceeded /\ ImportCsvComplete
    /\ ~db.table0.exists /\ db.rows = <<2, 1>>
    /\ DbOps = <<"check", "create", "insert", "insert", "commit", "close">>
    /\ db.table = [exists |-> TRUE, rows |-> <<2, 1>>]

\* C30: execute_write commits exactly once when the statement succeeds;
\* when the statement or the commit fails it rolls back once, the error
\* goes to the caller and nothing is committed; either way the connection
\* is closed exactly once, by the last call before the function returns.
C30_CommitOnceOrRollbackAndClose ==
    db.script = "execute_write" =>
        /\ DbCount("commit") <= 1 /\ DbCount("close") <= 1
        /\ (db.pc = "done" /\ db.conn # "none") =>
              /\ ClosedOnce
              /\ db.raised = "none" =>
                    /\ DbOps = <<"execute", "commit", "close">>
                    /\ db.out = "returned"
                    /\ db.count = Rowcount(db.stmt, db.table0)
                    /\ db.table = Executed(db.stmt, db.table0)
              /\ db.raised # "none" =>
                    /\ \/ DbOps = <<"execute", "rollback", "close">>
                       \/ DbOps = <<"execute", "commit", "rollback", "close">>
                    /\ db.out = "none"
                    /\ db.table = db.table0

\* C30 witness: the commit of a statement that wrote a row failed: rolled
\* back, closed, the error raised, the table as before.
C30_Witness ==
    /\ db.script = "execute_write" /\ db.pc = "done" /\ db.stmt = "insert"
    /\ db.raised # "none"
    /\ DbOps = <<"execute", "commit", "rollback", "close">>
    /\ db.table = db.table0

====
